---- MODULE Spec2Model ----
(***************************************************************************)
(* pr-manager: the reviewer-assignment engine.                             *)
(*                                                                         *)
(* State: the Persistent Store (tables teams, users, pull_requests,        *)
(* pull_request_reviewers), the Reviewer Directory (UserManager.users, the *)
(* in-memory cache), the request handlers in flight (one record per        *)
(* handler goroutine, with its position and locals) and the detached       *)
(* `go SetActivity(...)` goroutines that have been started and have not    *)
(* run yet.  A handler is cut into steps at its store transactions: the    *)
(* store is only atomic per transaction, and the cache per lock section.   *)
(***************************************************************************)
EXTENDS Integers, Sequences, FiniteSets, TLC

\* ---------------------------------------------------------------- universe

\* user ids, in the order ORDER BY user_id gives them
UserOrder == <<"u1", "u2", "u3", "u4">>

Users == {UserOrder[i] : i \in 1..Len(UserOrder)}

TeamNames == {"t1", "t2"}

PRIds == {"p1", "p2"}

\* how many handler invocations one behaviour starts
MaxOps == 3

\* the NULL of merged_at
NoTime == 0

OPEN == "OPEN"

MERGED == "MERGED"

\* the handler returned nil
NoErr == "ok"

ErrNotFound == "NotFound"

ErrPRMerged == "PRMerged"

ErrNotAssigned == "NotAssigned"

ErrNoCandidate == "NoCandidate"

ErrTeamExists == "TeamExists"

ErrInvalid == "InvalidPayload"

ErrStore == "StoreError"

ErrNotConfigured == "NotConfigured"

\* ---------------------------------------------------------------- helpers

Rank(u) == CHOOSE i \in 1..Len(UserOrder) : UserOrder[i] = u

Range(q) == {q[i] : i \in 1..Len(q)}

\* the sequences that list every element of S exactly once
RECURSIVE Perms(_)
Perms(S) ==
    IF S = {} THEN {<<>>}
    ELSE UNION {{<<x>> \o q : q \in Perms(S \ {x})} : x \in S}

\* S in ascending user_id order (ORDER BY user_id)
RECURSIVE SortedSeq(_)
SortedSeq(S) ==
    IF S = {} THEN <<>>
    ELSE LET m == CHOOSE x \in S : \A y \in S : Rank(x) <= Rank(y)
         IN <<m>> \o SortedSeq(S \ {m})

Contains(q, x) == \E i \in 1..Len(q) : q[i] = x

\* f with key k set to v, k added when absent (a map store, a row upsert)
Put(f, k, v) == [x \in DOMAIN f \cup {k} |-> IF x = k THEN v ELSE f[x]]

\* one more / one less of task t in a bag of started goroutines
BagAdd(b, t) == IF t \in DOMAIN b THEN [b EXCEPT ![t] = @ + 1] ELSE Put(b, t, 1)

BagRemove(b, t) ==
    IF b[t] > 1 THEN [b EXCEPT ![t] = @ - 1]
    ELSE [x \in DOMAIN b \ {t} |-> b[x]]

EmptyMap == [x \in {} |-> 0]

\* ---------------------------------------------------------------- state

VARIABLES
    dbTeams,    \* table teams: the set of team_name
    dbUsers,    \* table users: user_id -> [team, active]
    dbPRs,      \* tables pull_requests + pull_request_reviewers:
                \*   pull_request_id -> [author, status, createdAt, mergedAt, reviewers]
    users,      \* UserManager.users, the cache: user_id -> [team, active]
    slot,       \* the request handlers: slot -> its position, locals and last result
    pending,    \* started `go SetActivity(ids, status)` goroutines: a bag of [ids, status]
    started,    \* handler invocations started so far
    repo,       \* UserManager.repo: TRUE when a store is attached, FALSE when it is nil
    reviewerPool, \* a reviewerPool on its own: [queue, available]
    draw        \* the last call on that pool, with its arguments and its result

vars == <<dbTeams, dbUsers, dbPRs, users, slot, pending, started, repo, reviewerPool, draw>>

\* a reviewerPool without candidates
NoPool == [queue |-> <<>>, available |-> {}]

\* no call on the pool yet
NoDraw == [op |-> "none", members |-> EmptyMap, exclude |-> {}, ok |-> FALSE, id |-> ""]

\* no pull request loaded
NoPR == [author |-> "", status |-> "", createdAt |-> 0, mergedAt |-> 0, reviewers |-> <<>>]

Idle ==
    [pc |-> "idle", op |-> "none", pr |-> "", user |-> "", team |-> "",
     targets |-> <<>>, snap |-> NoPR, revs |-> {}, newRev |-> "",
     swaps |-> <<>>, deact |-> <<>>, err |-> NoErr,
     flag |-> FALSE, members |-> EmptyMap, fail |-> FALSE, raw |-> <<>>,
     deactivated |-> <<>>]

\* the handler goroutines: Spec serves two requests at a time, SeqSpec one
Slots == {1, 2}

\* ---------------------------------------------------------------- initial states

\* the service after POST /team/add of team t1 with the four users, all
\* active (UserManager.AddTeam on the empty store and cache): the rows are in
\* the store and in the cache, there is no pull request yet
FirstTeam == [u \in Users |-> [team |-> "t1", active |-> TRUE]]

Init ==
    /\ dbTeams = {"t1"}
    /\ dbUsers = FirstTeam
    /\ dbPRs = EmptyMap
    /\ users = FirstTeam
    /\ slot = [s \in Slots |-> Idle]
    /\ pending = EmptyMap
    /\ started = 0
    /\ repo = TRUE
    /\ reviewerPool = NoPool
    /\ draw = NoDraw

\* ---------------------------------------------------------------- Reviewer Directory

\* GetUserTeam that returns the stored team without caching the user
GetUserTeam_noCaching(cache, db, u) ==
    IF u \in DOMAIN cache THEN [err |-> NoErr, team |-> cache[u].team, users |-> cache]
    ELSE IF u \in DOMAIN db
         THEN [err |-> NoErr, team |-> db[u].team, users |-> cache]
         ELSE [err |-> ErrNotFound, team |-> "", users |-> cache]

\* UserManager.GetUserTeam: the cached team; a user that is not cached is read
\* from the store and put into the cache as the store has it
GetUserTeam(cache, db, u) ==
    IF u \in DOMAIN cache THEN [err |-> NoErr, team |-> cache[u].team, users |-> cache]
    ELSE IF u \in DOMAIN db
         THEN [err |-> NoErr, team |-> db[u].team, users |-> Put(cache, u, db[u])]
         ELSE [err |-> ErrNotFound, team |-> "", users |-> cache]

\* the cached users of a team that are active
ActiveInTeam(cache, team) ==
    {u \in DOMAIN cache : cache[u].team = team /\ cache[u].active}

\* AssignRewiers without the break at two
AssignRewiers_noLimit(cache, team) == {ActiveInTeam(cache, team)}

\* UserManager.AssignRewiers: the first two active members of the team a walk of
\* the map meets; Go leaves the order of the walk open, so any two of them (all of
\* them when there are fewer).  Only the membership of the result is stored.
AssignRewiers(cache, team) ==
    LET act == ActiveInTeam(cache, team)
    IN IF Cardinality(act) <= 2 THEN {act}
       ELSE {r \in SUBSET act : Cardinality(r) = 2}

\* SetActivity that makes an entry for a listed user that is not cached
SetActivity_addsMissing(cache, ids, status) ==
    [u \in DOMAIN cache \cup ids |->
        IF u \in ids
        THEN [team |-> IF u \in DOMAIN cache THEN cache[u].team ELSE "", active |-> status]
        ELSE cache[u]]

\* UserManager.SetActivity and UserManager.SyncUsersActivity: the flag of the
\* listed users that are cached; the others are skipped
SetActivity(cache, ids, status) ==
    [u \in DOMAIN cache |->
        IF u \in ids THEN [cache[u] EXCEPT !.active = status] ELSE cache[u]]

\* FindReplacementReviewer that does not look at IsActive
FindReplacementReviewer_inactiveToo(cache, team, exclude) ==
    {u \in DOMAIN cache : cache[u].team = team /\ u \notin exclude}

\* FindReplacementReviewer without its exclusion list
FindReplacementReviewer_noExclude(cache, team, exclude) ==
    {u \in DOMAIN cache : cache[u].team = team /\ cache[u].active}

\* UserManager.FindReplacementReviewer: the ids a walk of the map may return
\* first; none means ErrNoCandidate
FindReplacementReviewer(cache, team, exclude) ==
    {u \in DOMAIN cache :
        cache[u].team = team /\ cache[u].active /\ u \notin exclude}

\* ---------------------------------------------------------------- Persistent Store

\* the rows SavePullRequest inserts into pull_request_reviewers: the ids of the
\* payload, the empty ones skipped, each once
ReviewerRows(reviewers) == Range(reviewers) \ {""}

\* SavePullRequest that inserts the payload's reviewers next to the stored ones
SavePullRequest_keepsOldReviewers(prs, id, pr, commit) ==
    IF Len(pr.reviewers) > 2 \/ ~commit
    THEN [err |-> ErrStore, prs |-> prs]
    ELSE [err |-> NoErr,
          prs |-> Put(prs, id, [author |-> pr.author, status |-> pr.status,
                                createdAt |-> pr.createdAt, mergedAt |-> pr.mergedAt,
                                reviewers |-> ReviewerRows(pr.reviewers) \cup
                                    (IF id \in DOMAIN prs THEN prs[id].reviewers ELSE {})])]

\* Storage.SavePullRequest: refuses more than two reviewers before any write;
\* otherwise upserts the row (every column from the payload) and replaces the
\* reviewer rows; `commit` FALSE is any failure of the transaction (rolled back)
SavePullRequest(prs, id, pr, commit) ==
    IF Len(pr.reviewers) > 2 \/ ~commit
    THEN [err |-> ErrStore, prs |-> prs]
    ELSE [err |-> NoErr,
          prs |-> Put(prs, id, [author |-> pr.author, status |-> pr.status,
                                createdAt |-> pr.createdAt, mergedAt |-> pr.mergedAt,
                                reviewers |-> ReviewerRows(pr.reviewers)])]

\* Storage.GetPullRequest: the row with its reviewers ORDER BY user_id
GetPullRequest(prs, id) ==
    IF id \notin DOMAIN prs THEN [err |-> ErrNotFound, pr |-> NoPR]
    ELSE [err |-> NoErr,
          pr |-> [author |-> prs[id].author, status |-> prs[id].status,
                  createdAt |-> prs[id].createdAt, mergedAt |-> prs[id].mergedAt,
                  reviewers |-> SortedSeq(prs[id].reviewers)]]

\* Storage.FindOpenPullRequestsByReviewers: the ids of the OPEN pull requests
\* with a reviewer among ids
OpenPRsWith(prs, ids) ==
    {id \in DOMAIN prs : prs[id].status = OPEN /\ prs[id].reviewers \cap ids # {}}

\* FindOpenPullRequestsByReviewers with the oldest pull request first
FindOpenPullRequestsByReviewers_oldestFirst(prs, ids) ==
    {q \in Perms(OpenPRsWith(prs, ids \ {""})) :
        \A i, j \in 1..Len(q) : i < j => prs[q[i]].createdAt <= prs[q[j]].createdAt}

\* ... ORDER BY created_at DESC: every order of them the clause allows
FindOpenPullRequestsByReviewers(prs, ids) ==
    {q \in Perms(OpenPRsWith(prs, ids \ {""})) :
        \A i, j \in 1..Len(q) : i < j => prs[q[i]].createdAt >= prs[q[j]].createdAt}

\* Storage.GetTeam: the users rows of the team, when the team exists
StoreTeamMembers(db, team) ==
    {u \in DOMAIN db : db[u].team = team}

\* Storage.applyReviewerSwapsTx: per swap, DELETE the old row, INSERT the new
\* one; an INSERT of a row that is there violates the primary key and fails
RECURSIVE applyReviewerSwapsTx(_, _)
applyReviewerSwapsTx(prs, swaps) ==
    IF swaps = <<>> THEN [err |-> NoErr, prs |-> prs]
    ELSE LET sw == Head(swaps)
             afterDelete == prs[sw.pr].reviewers \ {sw.old}
         IN IF sw.new \in afterDelete THEN [err |-> ErrStore, prs |-> prs]
            ELSE applyReviewerSwapsTx(
                    [prs EXCEPT ![sw.pr].reviewers = afterDelete \cup {sw.new}],
                    Tail(swaps))

\* deactivateUsersTx with an UPDATE that matches no row
deactivateUsersTx_keepsFlags(db, ids) == db

\* Storage.deactivateUsersTx: UPDATE users SET is_active = false WHERE user_id = ANY(ids)
deactivateUsersTx(db, ids) ==
    [u \in DOMAIN db |-> IF u \in ids THEN [db[u] EXCEPT !.active = FALSE] ELSE db[u]]

\* ApplyBulkTeamReviewerSwaps that deactivates the users and leaves the
\* reviewer rows as they are
ApplyBulkTeamReviewerSwaps_usersOnly(prs, db, swaps, deact, commit) ==
    IF ~commit THEN [err |-> ErrStore, prs |-> prs, db |-> db]
    ELSE [err |-> NoErr, prs |-> prs, db |-> deactivateUsersTx(db, Range(deact))]

\* ApplyBulkTeamReviewerSwaps without the rollback: what was written before
\* the failure stays
ApplyBulkTeamReviewerSwaps_noRollback(prs, db, swaps, deact, commit) ==
    LET r == applyReviewerSwapsTx(prs, swaps)
    IN IF r.err # NoErr THEN [err |-> ErrStore, prs |-> prs, db |-> db]
       ELSE [err |-> IF commit THEN NoErr ELSE ErrStore,
             prs |-> r.prs, db |-> deactivateUsersTx(db, Range(deact))]

\* Storage.ApplyBulkTeamReviewerSwaps: both in one transaction
ApplyBulkTeamReviewerSwaps(prs, db, swaps, deact, commit) ==
    LET r == applyReviewerSwapsTx(prs, swaps)
    IN IF r.err # NoErr \/ ~commit
       THEN [err |-> ErrStore, prs |-> prs, db |-> db]
       ELSE [err |-> NoErr, prs |-> r.prs, db |-> deactivateUsersTx(db, Range(deact))]

\* ---------------------------------------------------------------- bulk swap planning

\* strings.TrimSpace on the raw ids a request may carry
TrimSpace(raw) ==
    CASE raw = " " -> ""
      [] raw = " u1 " -> "u1"
      [] OTHER -> raw

\* normalizeTargetUserIDs that keeps a repeated id
RECURSIVE normalizeTargetUserIDs_noDedup(_, _)
normalizeTargetUserIDs_noDedup(userIDs, targets) ==
    IF userIDs = <<>> THEN targets
    ELSE LET id == TrimSpace(Head(userIDs))
         IN IF id = ""
            THEN normalizeTargetUserIDs_noDedup(Tail(userIDs), targets)
            ELSE normalizeTargetUserIDs_noDedup(Tail(userIDs), Append(targets, id))

\* normalizeTargetUserIDs: trimmed, the empty ones dropped, first occurrences kept
RECURSIVE normalizeTargetUserIDs(_, _)
normalizeTargetUserIDs(userIDs, targets) ==
    IF userIDs = <<>> THEN targets
    ELSE LET id == TrimSpace(Head(userIDs))
         IN IF id = "" \/ Contains(targets, id)
            THEN normalizeTargetUserIDs(Tail(userIDs), targets)
            ELSE normalizeTargetUserIDs(Tail(userIDs), Append(targets, id))

\* UserManager.GetTeam: the store's team when the store has it, else the team
\* built from the cache entries of that name; members: user_id -> is_active
GetTeam(teams, db, cache, team) ==
    IF team \in teams
    THEN [err |-> NoErr,
          members |-> [u \in StoreTeamMembers(db, team) |-> db[u].active]]
    ELSE LET cached == {u \in DOMAIN cache : cache[u].team = team}
         IN IF cached = {} THEN [err |-> ErrNotFound, members |-> EmptyMap]
            ELSE [err |-> NoErr, members |-> [u \in cached |-> cache[u].active]]

\* ensureTargetsInTeam that is content with one target in the team
ensureTargetsInTeam_any(targets, members) ==
    IF \E i \in 1..Len(targets) : targets[i] \in DOMAIN members THEN NoErr ELSE ErrNotFound

\* ensureTargetsInTeam
ensureTargetsInTeam(targets, members) ==
    IF \A i \in 1..Len(targets) : targets[i] \in DOMAIN members THEN NoErr ELSE ErrNotFound

\* collectReplacementCandidates that does not look at IsActive
RECURSIVE collectReplacementCandidates_inactiveToo(_, _, _)
collectReplacementCandidates_inactiveToo(order, members, targetSet) ==
    IF order = <<>> THEN <<>>
    ELSE LET rest == collectReplacementCandidates_inactiveToo(Tail(order), members, targetSet)
         IN IF Head(order) \notin targetSet
            THEN <<Head(order)>> \o rest
            ELSE rest

\* collectReplacementCandidates: the members, in the order the team lists them,
\* that are active and not targeted
RECURSIVE collectReplacementCandidates(_, _, _)
collectReplacementCandidates(order, members, targetSet) ==
    IF order = <<>> THEN <<>>
    ELSE LET rest == collectReplacementCandidates(Tail(order), members, targetSet)
         IN IF Head(order) \notin targetSet /\ members[Head(order)]
            THEN <<Head(order)>> \o rest
            ELSE rest

\* newReviewerPool: the ids in order, the empty and the repeated ones dropped
RECURSIVE PoolQueue(_, _)
PoolQueue(ids, queue) ==
    IF ids = <<>> THEN queue
    ELSE IF Head(ids) = "" \/ Contains(queue, Head(ids))
         THEN PoolQueue(Tail(ids), queue)
         ELSE PoolQueue(Tail(ids), Append(queue, Head(ids)))

newReviewerPool(ids) ==
    LET queue == PoolQueue(ids, <<>>)
    IN [queue |-> queue, available |-> Range(queue)]

\* take's loop that drops an excluded candidate from the queue
RECURSIVE takeLoop_dropsExcluded(_, _, _, _)
takeLoop_dropsExcluded(queue, available, exclude, attempts) ==
    IF attempts = 0 \/ queue = <<>>
    THEN [ok |-> FALSE, id |-> "", pool |-> [queue |-> queue, available |-> available]]
    ELSE LET candidate == Head(queue)
         IN IF candidate \notin available \/ candidate \in exclude
            THEN takeLoop_dropsExcluded(Tail(queue), available, exclude, attempts - 1)
            ELSE [ok |-> TRUE, id |-> candidate,
                  pool |-> [queue |-> Tail(queue),
                            available |-> available \ {candidate}]]

\* the loop of reviewerPool.take: at most `attempts` heads of the queue are
\* looked at; one that is no longer available is dropped, one that is excluded
\* goes to the back, any other is taken
RECURSIVE takeLoop(_, _, _, _)
takeLoop(queue, available, exclude, attempts) ==
    IF attempts = 0 \/ queue = <<>>
    THEN [ok |-> FALSE, id |-> "", pool |-> [queue |-> queue, available |-> available]]
    ELSE LET candidate == Head(queue)
         IN IF candidate \notin available
            THEN takeLoop(Tail(queue), available, exclude, attempts - 1)
            ELSE IF candidate \in exclude
                 THEN takeLoop(Append(Tail(queue), candidate), available, exclude, attempts - 1)
                 ELSE [ok |-> TRUE, id |-> candidate,
                       pool |-> [queue |-> Tail(queue),
                                 available |-> available \ {candidate}]]

\* take that leaves the candidate it returns in the pool
take_keepsCandidate(pool, exclude) ==
    IF pool.available = {} THEN [ok |-> FALSE, id |-> "", pool |-> pool]
    ELSE [takeLoop(pool.queue, pool.available, exclude, Len(pool.queue))
             EXCEPT !.pool = pool]

\* take that does not look at the exclusion set
take_ignoresExclude(pool, exclude) ==
    IF pool.available = {} THEN [ok |-> FALSE, id |-> "", pool |-> pool]
    ELSE takeLoop(pool.queue, pool.available, {}, Len(pool.queue))

\* reviewerPool.take
take(pool, exclude) ==
    IF pool.available = {} THEN [ok |-> FALSE, id |-> "", pool |-> pool]
    ELSE takeLoop(pool.queue, pool.available, exclude, Len(pool.queue))

\* the inner loop of planBulkReviewerSwaps, over the reviewers of one pull
\* request: each targeted one gets the next candidate that is not assigned to
\* this pull request; acc = [err, failed, pool, swaps]
RECURSIVE planReviewers(_, _, _, _, _)
planReviewers(prID, reviewers, assigned, targetSet, acc) ==
    IF reviewers = <<>> THEN acc
    ELSE IF Head(reviewers) \notin targetSet
         THEN planReviewers(prID, Tail(reviewers), assigned, targetSet, acc)
         ELSE LET t == take(acc.pool, assigned)
              IN IF ~t.ok
                 THEN [acc EXCEPT !.err = ErrNoCandidate, !.failed = prID]
                 ELSE planReviewers(prID, Tail(reviewers), assigned \cup {t.id}, targetSet,
                          [acc EXCEPT !.pool = t.pool,
                                      !.swaps = Append(@, [pr |-> prID,
                                                           old |-> Head(reviewers),
                                                           new |-> t.id])])

\* the outer loop of planBulkReviewerSwaps, over the open pull requests found
RECURSIVE planPRs(_, _, _, _)
planPRs(prs, openPRs, targetSet, acc) ==
    IF openPRs = <<>> \/ acc.err # NoErr THEN acc
    ELSE LET reviewers == GetPullRequest(prs, Head(openPRs)).pr.reviewers
         IN planPRs(prs, Tail(openPRs), targetSet,
                    planReviewers(Head(openPRs), reviewers, Range(reviewers), targetSet, acc))

\* PullRequestManager.planBulkReviewerSwaps on the pull requests openPRs (the
\* result of FindOpenPullRequestsByReviewers, read from prs)
planBulkReviewerSwaps(prs, openPRs, targetSet, pool) ==
    planPRs(prs, openPRs, targetSet,
            [err |-> NoErr, failed |-> "", pool |-> pool, swaps |-> <<>>])

\* replacementIDs: the new reviewer of every swap, in order
replacementIDs(swaps) == [i \in 1..Len(swaps) |-> swaps[i].new]

\* ---------------------------------------------------------------- handlers

\* the next request goes to the first handler goroutine that is free
Begin(s) ==
    /\ started < MaxOps
    /\ slot[s].pc = "idle"
    /\ \A r \in Slots : r < s => slot[r].pc # "idle"

\* the handler of slot s returns: its locals go, its request and result stay
Return(s, err, newRev, swaps, deact) ==
    [Idle EXCEPT !.op = slot[s].op, !.pr = slot[s].pr, !.user = slot[s].user,
                 !.team = slot[s].team, !.targets = slot[s].targets,
                 !.raw = slot[s].raw,
                 !.err = err, !.newRev = newRev, !.swaps = swaps, !.deact = deact]

\* time.Now(): the requests arrive one after the other
Now == started + 1

\* `go prm.UserService.SetActivity(ids, status)`
Spawn(b, ids, status) == BagAdd(b, [ids |-> ids, status |-> status])

\* the detached goroutine runs: UserManager.SetActivity under the lock
RunSetActivity ==
    \E t \in DOMAIN pending :
        /\ users' = SetActivity(users, t.ids, t.status)
        /\ pending' = BagRemove(pending, t)
        /\ UNCHANGED <<dbTeams, dbUsers, dbPRs, slot, started, repo, reviewerPool, draw>>

\* the ids of a team payload, in order
MemberIDs(members) == [i \in 1..Len(members) |-> members[i].id]

\* the validation of AddTeam without the check for a repeated user_id
ValidMembers_emptyOnly(members) ==
    \A i \in 1..Len(members) : members[i].id # ""

\* the validation of UserManager.AddTeam: no empty and no repeated user_id
ValidMembers(members) ==
    /\ \A i \in 1..Len(members) : members[i].id # ""
    /\ \A i, j \in 1..Len(members) : i # j => members[i].id # members[j].id

\* the users rows (and cache entries) the members of a payload become
RECURSIVE UpsertMembers(_, _, _)
UpsertMembers(f, team, members) ==
    IF members = <<>> THEN f
    ELSE UpsertMembers(Put(f, Head(members).id,
                           [team |-> team, active |-> Head(members).active]),
                       team, Tail(members))

\* Storage.CreateTeamWithMembers: the team row (TeamExists when it is there) and
\* the upsert of every member, in one transaction
CreateTeamWithMembers(teams, db, team, members, commit) ==
    IF team \in teams THEN [err |-> ErrTeamExists, teams |-> teams, db |-> db]
    ELSE IF ~commit THEN [err |-> ErrStore, teams |-> teams, db |-> db]
    ELSE [err |-> NoErr, teams |-> teams \cup {team},
          db |-> UpsertMembers(db, team, members)]

\* AddTeam that fills the cache before it knows what the store answered
AddTeam_cacheFirst(s, team, members, commit) ==
    /\ Begin(s)
    /\ started' = started + 1
    /\ LET r == CreateTeamWithMembers(dbTeams, dbUsers, team, members, commit)
           err == IF ~ValidMembers(members) THEN ErrInvalid
                  ELSE IF repo THEN r.err ELSE NoErr
       IN /\ dbTeams' = IF err = NoErr /\ repo THEN r.teams ELSE dbTeams
          /\ dbUsers' = IF err = NoErr /\ repo THEN r.db ELSE dbUsers
          /\ users' = IF err # ErrInvalid THEN UpsertMembers(users, team, members) ELSE users
          /\ slot' = [slot EXCEPT ![s] = [Idle EXCEPT !.op = "addTeam", !.team = team,
                                                       !.targets = MemberIDs(members),
                                                       !.err = err]]
    /\ UNCHANGED <<dbPRs, pending, repo, reviewerPool, draw>>

\* UserManager.AddTeam: the validation, then (when a store is attached)
\* CreateTeamWithMembers, then the cache; the payload's ids stay in the record
AddTeam(s, team, members, commit) ==
    /\ Begin(s)
    /\ started' = started + 1
    /\ LET r == CreateTeamWithMembers(dbTeams, dbUsers, team, members, commit)
           err == IF ~ValidMembers(members) THEN ErrInvalid
                  ELSE IF repo THEN r.err ELSE NoErr
       IN /\ dbTeams' = IF err = NoErr /\ repo THEN r.teams ELSE dbTeams
          /\ dbUsers' = IF err = NoErr /\ repo THEN r.db ELSE dbUsers
          /\ users' = IF err = NoErr THEN UpsertMembers(users, team, members) ELSE users
          /\ slot' = [slot EXCEPT ![s] = [Idle EXCEPT !.op = "addTeam", !.team = team,
                                                       !.targets = MemberIDs(members),
                                                       !.err = err]]
    /\ UNCHANGED <<dbPRs, pending, repo, reviewerPool, draw>>

\* SetUserActivity that leaves the new flag in the cache when SaveUser fails
SetUserActivity_noRollback(s, u, isActive, commit) ==
    /\ Begin(s)
    /\ started' = started + 1
    /\ LET err == IF u \notin DOMAIN users THEN ErrNotFound
                  ELSE IF repo /\ ~commit THEN ErrStore ELSE NoErr
       IN /\ users' = IF err # ErrNotFound THEN [users EXCEPT ![u].active = isActive]
                      ELSE users
          /\ dbUsers' = IF err = NoErr /\ repo
                        THEN Put(dbUsers, u, [team |-> users[u].team, active |-> isActive])
                        ELSE dbUsers
          /\ slot' = [slot EXCEPT ![s] = [Idle EXCEPT !.op = "setUserActivity", !.user = u,
                                                       !.flag = isActive, !.err = err]]
    /\ UNCHANGED <<dbTeams, dbPRs, pending, repo, reviewerPool, draw>>

\* UserManager.SetUserActivity: the cache entry and, under the same lock, the
\* users row (Storage.SaveUser writes the cached user); the flag is put back
\* when the store fails
SetUserActivity(s, u, isActive, commit) ==
    /\ Begin(s)
    /\ started' = started + 1
    /\ LET err == IF u \notin DOMAIN users THEN ErrNotFound
                  ELSE IF repo /\ ~commit THEN ErrStore ELSE NoErr
       IN /\ users' = IF err = NoErr THEN [users EXCEPT ![u].active = isActive] ELSE users
          /\ dbUsers' = IF err = NoErr /\ repo
                        THEN Put(dbUsers, u, [team |-> users[u].team, active |-> isActive])
                        ELSE dbUsers
          /\ slot' = [slot EXCEPT ![s] = [Idle EXCEPT !.op = "setUserActivity", !.user = u,
                                                       !.flag = isActive, !.err = err]]
    /\ UNCHANGED <<dbTeams, dbPRs, pending, repo, reviewerPool, draw>>

\* PullRequestManager.CreatePullRequest up to the call of SavePullRequest: the
\* author's team, the reviewers, and the goroutine that will deactivate them
CreateStart(s, id, author) ==
    /\ Begin(s)
    /\ started' = started + 1
    /\ LET g == GetUserTeam(users, dbUsers, author)
       IN IF g.err # NoErr
          THEN /\ slot' = [slot EXCEPT ![s] = [Idle EXCEPT !.op = "create", !.pr = id,
                                                            !.user = author, !.err = g.err]]
               /\ UNCHANGED <<users, pending>>
          ELSE \E revs \in AssignRewiers(g.users, g.team) :
                 /\ users' = g.users
                 /\ pending' = Spawn(pending, revs, FALSE)
                 /\ slot' = [slot EXCEPT ![s] =
                        [Idle EXCEPT !.pc = "create_save", !.op = "create", !.pr = id,
                                     !.user = author, !.revs = revs,
                                     !.snap = [author |-> author, status |-> OPEN,
                                               createdAt |-> Now, mergedAt |-> NoTime,
                                               reviewers |-> SortedSeq(revs)]]]
    /\ UNCHANGED <<dbTeams, dbUsers, dbPRs, repo, reviewerPool, draw>>

\* ... and its SavePullRequest
CreateSave(s, commit) ==
    /\ slot[s].pc = "create_save"
    /\ LET r == SavePullRequest(dbPRs, slot[s].pr, slot[s].snap, commit)
       IN /\ dbPRs' = r.prs
          /\ slot' = [slot EXCEPT ![s] = Return(s, r.err, "", <<>>, <<>>)]
    /\ UNCHANGED <<dbTeams, dbUsers, users, pending, started, repo, reviewerPool, draw>>

\* PullRequestManager.Merge up to the call of SavePullRequest
MergeStart(s, id) ==
    /\ Begin(s)
    /\ started' = started + 1
    /\ LET g == GetPullRequest(dbPRs, id)
           req == [Idle EXCEPT !.op = "merge", !.pr = id]
       IN slot' = [slot EXCEPT ![s] =
              IF g.err # NoErr THEN [req EXCEPT !.err = ErrNotFound]
              ELSE IF g.pr.status = MERGED THEN req
              ELSE [req EXCEPT !.pc = "merge_save",
                               !.snap = [g.pr EXCEPT !.status = MERGED, !.mergedAt = Now]]]
    /\ UNCHANGED <<dbTeams, dbUsers, dbPRs, users, pending, repo, reviewerPool, draw>>

\* Merge that reactivates the reviewers whether or not the save succeeded
MergeSave_spawnsOnFailure(s, commit) ==
    /\ slot[s].pc = "merge_save"
    /\ LET r == SavePullRequest(dbPRs, slot[s].pr, slot[s].snap, commit)
           reviewers == Range(slot[s].snap.reviewers)
       IN /\ dbPRs' = r.prs
          /\ pending' = IF reviewers # {} THEN Spawn(pending, reviewers, TRUE) ELSE pending
          /\ slot' = [slot EXCEPT ![s] = Return(s, r.err, "", <<>>, <<>>)]
    /\ UNCHANGED <<dbTeams, dbUsers, users, started, repo, reviewerPool, draw>>

\* ... its SavePullRequest and, after it, the goroutine that reactivates the reviewers
MergeSave(s, commit) ==
    /\ slot[s].pc = "merge_save"
    /\ LET r == SavePullRequest(dbPRs, slot[s].pr, slot[s].snap, commit)
           reviewers == Range(slot[s].snap.reviewers)
       IN /\ dbPRs' = r.prs
          /\ pending' = IF r.err = NoErr /\ reviewers # {}
                        THEN Spawn(pending, reviewers, TRUE) ELSE pending
          /\ slot' = [slot EXCEPT ![s] = Return(s, r.err, "", <<>>, <<>>)]
    /\ UNCHANGED <<dbTeams, dbUsers, users, started, repo, reviewerPool, draw>>

\* Reassign that looks for the old reviewer before it looks at the status
ReassignStart_assignedFirst(s, id, old) ==
    /\ Begin(s)
    /\ started' = started + 1
    /\ LET g == GetPullRequest(dbPRs, id)
           req == [Idle EXCEPT !.op = "reassign", !.pr = id, !.user = old]
       IN slot' = [slot EXCEPT ![s] =
              IF g.err # NoErr THEN [req EXCEPT !.err = ErrNotFound]
              ELSE IF ~Contains(g.pr.reviewers, old) THEN [req EXCEPT !.err = ErrNotAssigned]
              ELSE IF g.pr.status = MERGED THEN [req EXCEPT !.err = ErrPRMerged]
              ELSE [req EXCEPT !.pc = "reassign_pick", !.snap = g.pr]]
    /\ UNCHANGED <<dbTeams, dbUsers, dbPRs, users, pending, repo, reviewerPool, draw>>

\* PullRequestManager.Reassign: GetPullRequest and the checks on what it loaded
ReassignStart(s, id, old) ==
    /\ Begin(s)
    /\ started' = started + 1
    /\ LET g == GetPullRequest(dbPRs, id)
           req == [Idle EXCEPT !.op = "reassign", !.pr = id, !.user = old]
       IN slot' = [slot EXCEPT ![s] =
              IF g.err # NoErr THEN [req EXCEPT !.err = ErrNotFound]
              ELSE IF g.pr.status = MERGED THEN [req EXCEPT !.err = ErrPRMerged]
              ELSE IF ~Contains(g.pr.reviewers, old) THEN [req EXCEPT !.err = ErrNotAssigned]
              ELSE [req EXCEPT !.pc = "reassign_pick", !.snap = g.pr]]
    /\ UNCHANGED <<dbTeams, dbUsers, dbPRs, users, pending, repo, reviewerPool, draw>>

\* the reviewers of the loaded pull request with old replaced by new
ReplaceReviewer(reviewers, old, new) ==
    Append(SelectSeq(reviewers, LAMBDA r : r # old), new)

\* ... the team of the old reviewer and the replacement, from the directory
ReassignPick(s) ==
    /\ slot[s].pc = "reassign_pick"
    /\ LET old == slot[s].user
           g == GetUserTeam(users, dbUsers, old)
           exclude == Range(slot[s].snap.reviewers) \cup {old}
           found == FindReplacementReviewer(g.users, g.team, exclude)
       IN /\ users' = g.users
          /\ IF g.err # NoErr
             THEN slot' = [slot EXCEPT ![s] = Return(s, g.err, "", <<>>, <<>>)]
             ELSE IF found = {}
             THEN slot' = [slot EXCEPT ![s] = Return(s, ErrNoCandidate, "", <<>>, <<>>)]
             ELSE \E new \in found :
                    slot' = [slot EXCEPT ![s].pc = "reassign_save", ![s].newRev = new,
                                         ![s].snap.reviewers =
                                             ReplaceReviewer(@, old, new)]
    /\ UNCHANGED <<dbTeams, dbUsers, dbPRs, pending, started, repo, reviewerPool, draw>>

\* ... its SavePullRequest and, after it, the two activity goroutines
ReassignSave(s, commit) ==
    /\ slot[s].pc = "reassign_save"
    /\ LET r == SavePullRequest(dbPRs, slot[s].pr, slot[s].snap, commit)
       IN /\ dbPRs' = r.prs
          /\ pending' = IF r.err = NoErr
                        THEN Spawn(Spawn(pending, {slot[s].user}, TRUE),
                                   {slot[s].newRev}, FALSE)
                        ELSE pending
          /\ slot' = [slot EXCEPT ![s] =
                         Return(s, r.err, IF r.err = NoErr THEN slot[s].newRev ELSE "",
                                <<>>, <<>>)]
    /\ UNCHANGED <<dbTeams, dbUsers, users, started, repo, reviewerPool, draw>>

\* PullRequestManager.BulkDeactivateTeamMembers before the pool is built: the
\* validation of the request, normalizeTargetUserIDs, GetTeam, ensureTargetsInTeam
BulkCheck(team, userIDs) ==
    LET targets == normalizeTargetUserIDs(userIDs, <<>>)
        t == GetTeam(dbTeams, dbUsers, users, team)
    IN IF team = "" \/ userIDs = <<>> \/ targets = <<>> THEN ErrInvalid
       ELSE IF t.err # NoErr THEN t.err
       ELSE ensureTargetsInTeam(targets, t.members)

\* a plan whose usersToDeactivate holds the targets only
BulkPlan_targetsOnly(targets, candidateIDs, openPRs) ==
    LET pool == newReviewerPool(candidateIDs)
        plan == planBulkReviewerSwaps(dbPRs, openPRs, Range(targets), pool)
    IN IF plan.err # NoErr
       THEN [err |-> plan.err, swaps |-> <<>>, deact |-> <<>>]
       ELSE [err |-> NoErr, swaps |-> plan.swaps, deact |-> targets]

\* ... and from there up to the store transaction: the candidate pool and the
\* whole swap plan, for the candidates and the open pull requests as they come
BulkPlan(targets, candidateIDs, openPRs) ==
    LET pool == newReviewerPool(candidateIDs)
        plan == planBulkReviewerSwaps(dbPRs, openPRs, Range(targets), pool)
    IN IF plan.err # NoErr
       THEN [err |-> plan.err, swaps |-> <<>>, deact |-> <<>>]
       ELSE [err |-> NoErr, swaps |-> plan.swaps,
             deact |-> targets \o replacementIDs(plan.swaps)]

\* the candidate lists collectReplacementCandidates may return: GetTeam lists
\* the members in any order (ORDER BY username in the store, a walk of the map
\* in the cache fallback)
CandidateLists(team, targets) ==
    LET members == GetTeam(dbTeams, dbUsers, users, team).members
    IN {collectReplacementCandidates(order, members, Range(targets)) :
            order \in Perms(DOMAIN members)}

\* BulkDeactivateTeamMembers that deactivates the targets in the store before
\* it plans the swaps
BulkStart_deactivatesFirst(s, team, userIDs) ==
    /\ Begin(s)
    /\ started' = started + 1
    /\ LET targets == normalizeTargetUserIDs(userIDs, <<>>)
           req == [Idle EXCEPT !.op = "bulk", !.team = team, !.targets = targets,
                               !.raw = userIDs]
           check == BulkCheck(team, userIDs)
       IN IF check # NoErr
          THEN /\ slot' = [slot EXCEPT ![s] = [req EXCEPT !.err = check]]
               /\ dbUsers' = dbUsers
          ELSE /\ dbUsers' = deactivateUsersTx(dbUsers, Range(targets))
               /\ \E candidateIDs \in CandidateLists(team, targets),
                     openPRs \in FindOpenPullRequestsByReviewers(dbPRs, Range(targets)) :
                    LET b == BulkPlan(targets, candidateIDs, openPRs)
                    IN slot' = [slot EXCEPT ![s] =
                           IF b.err # NoErr THEN [req EXCEPT !.err = b.err]
                           ELSE [req EXCEPT !.pc = "bulk_apply", !.swaps = b.swaps,
                                            !.deact = b.deact]]
    /\ UNCHANGED <<dbTeams, dbPRs, users, pending, repo, reviewerPool, draw>>

\* PullRequestManager.BulkDeactivateTeamMembers up to the store transaction
BulkStart(s, team, userIDs) ==
    /\ Begin(s)
    /\ started' = started + 1
    /\ LET targets == normalizeTargetUserIDs(userIDs, <<>>)
           req == [Idle EXCEPT !.op = "bulk", !.team = team, !.targets = targets,
                               !.raw = userIDs]
           check == BulkCheck(team, userIDs)
       IN IF check # NoErr
          THEN slot' = [slot EXCEPT ![s] = [req EXCEPT !.err = check]]
          ELSE \E candidateIDs \in CandidateLists(team, targets),
                  openPRs \in FindOpenPullRequestsByReviewers(dbPRs, Range(targets)) :
                 LET b == BulkPlan(targets, candidateIDs, openPRs)
                 IN slot' = [slot EXCEPT ![s] =
                        IF b.err # NoErr THEN [req EXCEPT !.err = b.err]
                        ELSE [req EXCEPT !.pc = "bulk_apply", !.swaps = b.swaps,
                                         !.deact = b.deact]]
    /\ UNCHANGED <<dbTeams, dbUsers, dbPRs, users, pending, repo, reviewerPool, draw>>

\* ... its ApplyBulkTeamReviewerSwaps
BulkApply(s, commit) ==
    /\ slot[s].pc = "bulk_apply"
    /\ LET r == ApplyBulkTeamReviewerSwaps(dbPRs, dbUsers, slot[s].swaps, slot[s].deact, commit)
       IN /\ dbPRs' = r.prs
          /\ dbUsers' = r.db
          /\ slot' = [slot EXCEPT ![s] =
                IF r.err # NoErr THEN Return(s, r.err, "", <<>>, <<>>)
                ELSE [slot[s] EXCEPT !.pc = "bulk_sync"]]
    /\ UNCHANGED <<dbTeams, users, pending, started, repo, reviewerPool, draw>>

\* ... and its SyncUsersActivity
BulkSync(s) ==
    /\ slot[s].pc = "bulk_sync"
    /\ users' = SetActivity(users, Range(slot[s].deact), FALSE)
    /\ slot' = [slot EXCEPT ![s] =
          [Return(s, NoErr, "", slot[s].swaps, slot[s].deact)
              EXCEPT !.deactivated = slot[s].targets]]
    /\ UNCHANGED <<dbTeams, dbUsers, dbPRs, pending, started, repo, reviewerPool, draw>>

\* the process is stopped and started again: the store stays, the cache is
\* empty, the goroutines are gone
Restart ==
    /\ started < MaxOps
    /\ started' = started + 1
    /\ users' = EmptyMap
    /\ pending' = EmptyMap
    /\ slot' = [s \in Slots |-> Idle]
    /\ UNCHANGED <<dbTeams, dbUsers, dbPRs, repo, reviewerPool, draw>>

\* ---------------------------------------------------------------- requests

Member(id) == [id |-> id, active |-> TRUE]

\* POST /team/add bodies: a second team that takes u4 over
TeamPayloads ==
    {[team |-> "t2", members |-> <<Member("u4")>>]}

\* POST /team/deactivateUsers user_ids: one id, two ids, and lists that
\* normalizeTargetUserIDs changes
TargetLists ==
    {<<a>> : a \in Users}
        \cup {x \in Users \X Users : Rank(x[1]) < Rank(x[2])}
        \cup {<<"">>, <<" u1 ", "u1">>}

\* user_ids with a padded id after a plain one and a repeated id, and with
\* nothing but blanks
PaddedLists == {<<"u2", " u1 ", "u2">>, <<" ", "">>}

\* pull_request_id of POST /pullRequest/create: an id in use, or the next new one
CreateIds == {id \in PRIds : id = "p1" \/ "p1" \in DOMAIN dbPRs}

\* ---------------------------------------------------------------- specifications

\* two handlers at a time on one pull request id
Next ==
    \/ RunSetActivity
    \/ \E s \in Slots :
        \/ \E author \in {"u1"} : CreateStart(s, "p1", author)
        \/ \E commit \in BOOLEAN : CreateSave(s, commit)
        \/ MergeStart(s, "p1")
        \/ \E commit \in BOOLEAN : MergeSave(s, commit)
        \/ \E old \in Users : ReassignStart(s, "p1", old)
        \/ ReassignPick(s)
        \/ \E commit \in BOOLEAN : ReassignSave(s, commit)
        \/ \E ids \in TargetLists : BulkStart(s, "t1", ids)
        \/ \E commit \in BOOLEAN : BulkApply(s, commit)
        \/ BulkSync(s)

Spec == Init /\ [][Next]_vars

\* one handler at a time
NextSeq ==
    \/ RunSetActivity
    \/ Restart
    \/ \E p \in TeamPayloads, commit \in BOOLEAN : AddTeam(1, p.team, p.members, commit)
    \/ \E a \in BOOLEAN, commit \in BOOLEAN : SetUserActivity(1, "u3", a, commit)
    \/ \E id \in PRIds : id \in CreateIds /\ CreateStart(1, id, "u1")
    \/ \E commit \in BOOLEAN : CreateSave(1, commit)
    \/ \E id \in PRIds : MergeStart(1, id)
    \/ \E commit \in BOOLEAN : MergeSave(1, commit)
    \/ \E id \in PRIds, old \in Users : ReassignStart(1, id, old)
    \/ ReassignPick(1)
    \/ \E commit \in BOOLEAN : ReassignSave(1, commit)
    \/ \E team \in TeamNames, ids \in TargetLists \cup PaddedLists : BulkStart(1, team, ids)
    \/ \E commit \in BOOLEAN : BulkApply(1, commit)
    \/ BulkSync(1)

SeqSpec == Init /\ [][NextSeq]_vars

\* ---------------------------------------------------------------- the directory alone

\* a UserManager fresh from NewUserManager, with a store attached (the tables
\* empty) or with none (repo nil)
InitDir ==
    /\ dbTeams = {}
    /\ dbUsers = EmptyMap
    /\ dbPRs = EmptyMap
    /\ users = EmptyMap
    /\ slot = [s \in Slots |-> Idle]
    /\ pending = EmptyMap
    /\ started = 0
    /\ repo \in BOOLEAN
    /\ reviewerPool = NoPool
    /\ draw = NoDraw

\* GetTeam that answers from the cache when the store's query fails
GetTeamCall_fallsBackOnError(s, team, ok) ==
    /\ Begin(s)
    /\ started' = started + 1
    /\ LET g == GetTeam(IF ok THEN dbTeams ELSE {}, dbUsers, users, team)
       IN slot' = [slot EXCEPT ![s] = [Idle EXCEPT !.op = "getTeam", !.team = team,
                                                    !.fail = repo /\ ~ok,
                                                    !.err = g.err, !.members = g.members]]
    /\ UNCHANGED <<dbTeams, dbUsers, dbPRs, users, pending, repo, reviewerPool, draw>>

\* a call of UserManager.GetTeam; ok FALSE: a query of Storage.GetTeam fails,
\* which is an error other than NotFound and is returned as it is
GetTeamCall(s, team, ok) ==
    /\ Begin(s)
    /\ started' = started + 1
    /\ LET g == IF repo /\ ~ok THEN [err |-> ErrStore, members |-> EmptyMap]
                ELSE GetTeam(dbTeams, dbUsers, users, team)
       IN slot' = [slot EXCEPT ![s] = [Idle EXCEPT !.op = "getTeam", !.team = team,
                                                    !.fail = repo /\ ~ok,
                                                    !.err = g.err, !.members = g.members]]
    /\ UNCHANGED <<dbTeams, dbUsers, dbPRs, users, pending, repo, reviewerPool, draw>>

\* a call of UserManager.GetUserTeam
GetUserTeamCall(s, u) ==
    /\ Begin(s)
    /\ started' = started + 1
    /\ LET g == GetUserTeam(users, dbUsers, u)
       IN /\ users' = g.users
          /\ slot' = [slot EXCEPT ![s] = [Idle EXCEPT !.op = "getUserTeam", !.user = u,
                                                       !.team = g.team, !.err = g.err]]
    /\ UNCHANGED <<dbTeams, dbUsers, dbPRs, pending, repo, reviewerPool, draw>>

\* a call of UserManager.FindReplacementReviewer
FindReplacementCall(s, team, excludeUserIDs) ==
    /\ Begin(s)
    /\ started' = started + 1
    /\ LET found == FindReplacementReviewer(users, team, Range(excludeUserIDs))
           req == [Idle EXCEPT !.op = "findReplacement", !.team = team,
                               !.targets = excludeUserIDs]
       IN IF found = {}
          THEN slot' = [slot EXCEPT ![s] = [req EXCEPT !.err = ErrNoCandidate]]
          ELSE \E new \in found : slot' = [slot EXCEPT ![s] = [req EXCEPT !.newRev = new]]
    /\ UNCHANGED <<dbTeams, dbUsers, dbPRs, users, pending, repo, reviewerPool, draw>>

\* a call of UserManager.SetActivity
SetActivityCall(s, rewIds, status) ==
    /\ Begin(s)
    /\ started' = started + 1
    /\ users' = SetActivity(users, Range(rewIds), status)
    /\ slot' = [slot EXCEPT ![s] = [Idle EXCEPT !.op = "setActivity", !.targets = rewIds,
                                                 !.flag = status, !.err = NoErr]]
    /\ UNCHANGED <<dbTeams, dbUsers, dbPRs, pending, repo, reviewerPool, draw>>

\* a call of UserManager.PrimeCacheUser: refused when no store is attached;
\* else Storage.GetUser (ok FALSE: its query fails) and the user it returns is
\* stored in the cache under its id, whatever the cache held there
PrimeCacheUserCall(s, u, ok) ==
    /\ Begin(s)
    /\ started' = started + 1
    /\ LET err == IF ~repo THEN ErrNotConfigured
                  ELSE IF ~ok THEN ErrStore
                  ELSE IF u \notin DOMAIN dbUsers THEN ErrNotFound
                  ELSE NoErr
       IN /\ users' = IF err = NoErr THEN Put(users, u, dbUsers[u]) ELSE users
          /\ slot' = [slot EXCEPT ![s] = [Idle EXCEPT !.op = "primeCacheUser", !.user = u,
                                                       !.fail = repo /\ ~ok, !.err = err]]
    /\ UNCHANGED <<dbTeams, dbUsers, dbPRs, pending, repo, reviewerPool, draw>>

\* the users the directory is called with
DirUsers == {"u1", "u2", "u3"}

\* team payloads: none, one and two members, a member of another payload, an
\* empty user_id, a user_id twice
DirMemberLists ==
    {<<>>, <<Member("u1")>>, <<Member("u1"), Member("u2")>>,
     <<Member("u2"), Member("u3")>>,
     <<Member(""), Member("u1")>>, <<Member("u1"), Member("u1")>>}

\* excludeUserIDs lists
ExcludeLists == {<<>>, <<"u1">>, <<"u1", "u2">>}

\* rewIds lists
ActivityLists == {<<"u1">>, <<"u1", "u2">>, <<"u3">>}

NextDir ==
    \/ Restart
    \/ \E team \in TeamNames, members \in DirMemberLists, commit \in BOOLEAN :
          AddTeam(1, team, members, commit)
    \/ \E team \in TeamNames, ok \in BOOLEAN : GetTeamCall(1, team, ok)
    \/ \E u \in DirUsers : GetUserTeamCall(1, u)
    \/ \E team \in TeamNames, ex \in ExcludeLists : FindReplacementCall(1, team, ex)
    \/ \E u \in DirUsers, a \in BOOLEAN, commit \in BOOLEAN : SetUserActivity(1, u, a, commit)
    \/ \E ids \in ActivityLists, status \in BOOLEAN : SetActivityCall(1, ids, status)
    \/ \E u \in DirUsers, ok \in BOOLEAN : PrimeCacheUserCall(1, u, ok)

DirSpec == InitDir /\ [][NextDir]_vars

\* ---------------------------------------------------------------- after a restart

\* the service after team t1 was added, u1 created pull request p1, which got
\* two reviewers of the four members (any two AssignRewiers may pick) and was
\* saved, and the process was restarted: the store has it all, the cache is empty
InitPlan ==
    /\ dbTeams = {"t1"}
    /\ dbUsers = FirstTeam
    /\ \E revs \in AssignRewiers(FirstTeam, "t1") :
          dbPRs = [id \in {"p1"} |->
                      [author |-> "u1", status |-> OPEN, createdAt |-> 0,
                       mergedAt |-> NoTime, reviewers |-> revs]]
    /\ users = EmptyMap
    /\ slot = [s \in Slots |-> Idle]
    /\ pending = EmptyMap
    /\ started = 0
    /\ repo = TRUE
    /\ reviewerPool = NoPool
    /\ draw = NoDraw

\* creates and bulk deactivations, one handler at a time
NextPlan ==
    \/ RunSetActivity
    \/ \E id \in PRIds : CreateStart(1, id, "u1")
    \/ \E commit \in BOOLEAN : CreateSave(1, commit)
    \/ \E ids \in TargetLists : BulkStart(1, "t1", ids)
    \/ \E commit \in BOOLEAN : BulkApply(1, commit)
    \/ BulkSync(1)

PlanSpec == InitPlan /\ [][NextPlan]_vars

\* ---------------------------------------------------------------- settled requests

\* the service after team t1 was added with three active members to an empty
\* system: they are in the store and in the cache
InitSync ==
    /\ dbTeams = {"t1"}
    /\ dbUsers = [u \in {"u1", "u2", "u3"} |-> [team |-> "t1", active |-> TRUE]]
    /\ dbPRs = EmptyMap
    /\ users = dbUsers
    /\ slot = [s \in Slots |-> Idle]
    /\ pending = EmptyMap
    /\ started = 0
    /\ repo = TRUE
    /\ reviewerPool = NoPool
    /\ draw = NoDraw

\* one handler at a time, and no request arrives while a SetActivity
\* goroutine of an earlier one has still to run; the teams added have no
\* user in common
NextSync ==
    \/ RunSetActivity
    \/ /\ pending = EmptyMap
       /\ \/ \E p \in TeamPayloads, commit \in BOOLEAN : AddTeam(1, p.team, p.members, commit)
          \/ \E id \in PRIds : CreateStart(1, id, "u1")
          \/ \E id \in PRIds : MergeStart(1, id)
          \/ \E id \in PRIds, old \in Users : ReassignStart(1, id, old)
          \/ \E ids \in TargetLists : BulkStart(1, "t1", ids)
    \/ \E commit \in BOOLEAN : CreateSave(1, commit)
    \/ \E commit \in BOOLEAN : MergeSave(1, commit)
    \/ ReassignPick(1)
    \/ \E commit \in BOOLEAN : ReassignSave(1, commit)
    \/ \E commit \in BOOLEAN : BulkApply(1, commit)
    \/ BulkSync(1)

SyncSpec == InitSync /\ [][NextSync]_vars

\* ---------------------------------------------------------------- the lock of the directory

\* um.mu, a sync.RWMutex: a goroutine at pc "lock" or "rlock" waits in Lock()
\* or RLock(), one at "locked" holds the mutex exclusively, one at "rlocked"
\* holds it shared.  Lock() returns when nobody holds the mutex, RLock() when
\* nobody holds it exclusively.
Holders == {s \in Slots : slot[s].pc \in {"locked", "rlocked"}}

\* AssignRewiers up to um.mu.Lock()
CallAssignRewiers(s, team) ==
    /\ slot[s].pc = "idle"
    /\ slot' = [slot EXCEPT ![s] = [Idle EXCEPT !.pc = "lock", !.op = "assign", !.team = team]]
    /\ UNCHANGED <<dbTeams, dbUsers, dbPRs, users, pending, started, repo, reviewerPool, draw>>

\* FindReplacementReviewer up to um.mu.RLock()
CallFindReplacementReviewer(s, team, exclude) ==
    /\ slot[s].pc = "idle"
    /\ slot' = [slot EXCEPT ![s] = [Idle EXCEPT !.pc = "rlock", !.op = "find", !.team = team,
                                                 !.revs = exclude]]
    /\ UNCHANGED <<dbTeams, dbUsers, dbPRs, users, pending, started, repo, reviewerPool, draw>>

\* GetTeam up to um.mu.RLock(): the answer of the store when it has the team,
\* else on to the cache
CallGetTeam(s, team) ==
    /\ slot[s].pc = "idle"
    /\ slot' = [slot EXCEPT ![s] =
          IF repo /\ team \in dbTeams
          THEN [Idle EXCEPT !.op = "getTeam", !.team = team,
                            !.members = GetTeam(dbTeams, dbUsers, users, team).members]
          ELSE [Idle EXCEPT !.pc = "rlock", !.op = "getTeam", !.team = team]]
    /\ UNCHANGED <<dbTeams, dbUsers, dbPRs, users, pending, started, repo, reviewerPool, draw>>

\* PrimeCacheUser up to um.mu.Lock(): the row repo.GetUser returns
CallPrimeCacheUser(s, u) ==
    /\ slot[s].pc = "idle"
    /\ slot' = [slot EXCEPT ![s] =
          IF ~repo THEN [Idle EXCEPT !.op = "warm", !.user = u, !.err = ErrNotConfigured]
          ELSE IF u \notin DOMAIN dbUsers
          THEN [Idle EXCEPT !.op = "warm", !.user = u, !.err = ErrNotFound]
          ELSE [Idle EXCEPT !.pc = "lock", !.op = "warm", !.user = u,
                            !.team = dbUsers[u].team, !.flag = dbUsers[u].active]]
    /\ UNCHANGED <<dbTeams, dbUsers, dbPRs, users, pending, started, repo, reviewerPool, draw>>

\* AddTeam up to um.mu.Lock(): the validation and CreateTeamWithMembers
CallAddTeam(s, team, members, commit) ==
    /\ slot[s].pc = "idle"
    /\ LET r == CreateTeamWithMembers(dbTeams, dbUsers, team, members, commit)
           err == IF ~ValidMembers(members) THEN ErrInvalid
                  ELSE IF repo THEN r.err ELSE NoErr
           req == [Idle EXCEPT !.op = "addTeam", !.team = team,
                               !.targets = MemberIDs(members)]
       IN /\ dbTeams' = IF err = NoErr /\ repo THEN r.teams ELSE dbTeams
          /\ dbUsers' = IF err = NoErr /\ repo THEN r.db ELSE dbUsers
          /\ slot' = [slot EXCEPT ![s] = IF err # NoErr THEN [req EXCEPT !.err = err]
                                         ELSE [req EXCEPT !.pc = "lock"]]
    /\ UNCHANGED <<dbPRs, users, pending, started, repo, reviewerPool, draw>>

\* SetActivity up to um.mu.Lock()
CallSetActivity(s, rewIds, status) ==
    /\ slot[s].pc = "idle"
    /\ slot' = [slot EXCEPT ![s] = [Idle EXCEPT !.pc = "lock", !.op = "setActive",
                                                 !.targets = rewIds, !.flag = status]]
    /\ UNCHANGED <<dbTeams, dbUsers, dbPRs, users, pending, started, repo, reviewerPool, draw>>

\* SetUserActivity up to um.mu.Lock()
CallSetUserActivity(s, u, isActive) ==
    /\ slot[s].pc = "idle"
    /\ slot' = [slot EXCEPT ![s] = [Idle EXCEPT !.pc = "lock", !.op = "setUserActivity",
                                                 !.user = u, !.flag = isActive]]
    /\ UNCHANGED <<dbTeams, dbUsers, dbPRs, users, pending, started, repo, reviewerPool, draw>>

\* um.mu.Lock() returns
AcquireLock(s) ==
    /\ slot[s].pc = "lock"
    /\ Holders = {}
    /\ slot' = [slot EXCEPT ![s].pc = "locked"]
    /\ UNCHANGED <<dbTeams, dbUsers, dbPRs, users, pending, started, repo, reviewerPool, draw>>

\* um.mu.RLock() returns
AcquireRLock(s) ==
    /\ slot[s].pc = "rlock"
    /\ \A r \in Holders : slot[r].pc = "rlocked"
    /\ slot' = [slot EXCEPT ![s].pc = "rlocked"]
    /\ UNCHANGED <<dbTeams, dbUsers, dbPRs, users, pending, started, repo, reviewerPool, draw>>

\* the rest of the method, under the mutex, and the deferred Unlock / RUnlock
Unlock(s, commit) ==
    /\ s \in Holders
    /\ LET req == [slot[s] EXCEPT !.pc = "idle"]
           op == slot[s].op
       IN \/ /\ op = "assign"
             /\ \E revs \in AssignRewiers(users, slot[s].team) :
                   slot' = [slot EXCEPT ![s] = [req EXCEPT !.revs = revs]]
             /\ UNCHANGED <<users, dbUsers>>
          \/ /\ op = "find"
             /\ LET found == FindReplacementReviewer(users, slot[s].team, slot[s].revs)
                IN IF found = {}
                   THEN slot' = [slot EXCEPT ![s] = [req EXCEPT !.err = ErrNoCandidate]]
                   ELSE \E new \in found :
                          slot' = [slot EXCEPT ![s] = [req EXCEPT !.newRev = new]]
             /\ UNCHANGED <<users, dbUsers>>
          \/ /\ op = "getTeam"
             /\ LET t == GetTeam({}, EmptyMap, users, slot[s].team)
                IN slot' = [slot EXCEPT ![s] = [req EXCEPT !.err = t.err,
                                                           !.members = t.members]]
             /\ UNCHANGED <<users, dbUsers>>
          \/ /\ op = "warm"
             /\ users' = Put(users, slot[s].user,
                             [team |-> slot[s].team, active |-> slot[s].flag])
             /\ slot' = [slot EXCEPT ![s] = req]
             /\ UNCHANGED dbUsers
          \/ /\ op = "addTeam"
             /\ users' = UpsertMembers(users, slot[s].team,
                             [i \in 1..Len(slot[s].targets) |-> Member(slot[s].targets[i])])
             /\ slot' = [slot EXCEPT ![s] = req]
             /\ UNCHANGED dbUsers
          \/ /\ op = "setActive"
             /\ users' = SetActivity(users, Range(slot[s].targets), slot[s].flag)
             /\ slot' = [slot EXCEPT ![s] = req]
             /\ UNCHANGED dbUsers
          \/ /\ op = "setUserActivity"
             /\ LET u == slot[s].user
                    err == IF u \notin DOMAIN users THEN ErrNotFound
                           ELSE IF repo /\ ~commit THEN ErrStore ELSE NoErr
                IN /\ users' = IF err = NoErr THEN [users EXCEPT ![u].active = slot[s].flag]
                               ELSE users
                   /\ dbUsers' = IF err = NoErr /\ repo
                                 THEN Put(dbUsers, u, [team |-> users[u].team,
                                                       active |-> slot[s].flag])
                                 ELSE dbUsers
                   /\ slot' = [slot EXCEPT ![s] = [req EXCEPT !.err = err]]
    /\ UNCHANGED <<dbTeams, dbPRs, pending, started, repo, reviewerPool, draw>>

\* two goroutines call the directory
NextLock ==
    \E s \in Slots :
        \/ CallAssignRewiers(s, "t1")
        \/ \E exclude \in {{}, {"u1"}} : CallFindReplacementReviewer(s, "t1", exclude)
        \/ \E team \in TeamNames : CallGetTeam(s, team)
        \/ CallPrimeCacheUser(s, "u1")
        \/ \E p \in TeamPayloads, commit \in BOOLEAN : CallAddTeam(s, p.team, p.members, commit)
        \/ \E status \in BOOLEAN : CallSetActivity(s, <<"u1">>, status)
        \/ \E a \in BOOLEAN : CallSetUserActivity(s, "u3", a)
        \/ AcquireLock(s)
        \/ AcquireRLock(s)
        \/ \E commit \in BOOLEAN : Unlock(s, commit)

LockSpec == Init /\ [][NextLock]_vars

\* ---------------------------------------------------------------- the store alone

\* the longest reviewer list of a payload
MaxPayload == 3

\* the reviewer lists of the payloads: ids, repeated ids and empty ids
SaveLists == UNION {[1..n -> {"", "u1", "u2"}] : n \in 0..MaxPayload}

\* the pull requests handed to SavePullRequest
SavePayloads ==
    [author : {"u3"}, status : {OPEN, MERGED}, createdAt : {1}, mergedAt : {NoTime},
     reviewers : SaveLists]

\* an empty store, no directory in front of it
InitStore ==
    /\ dbTeams = {}
    /\ dbUsers = EmptyMap
    /\ dbPRs = EmptyMap
    /\ users = EmptyMap
    /\ slot = [s \in Slots |-> Idle]
    /\ pending = EmptyMap
    /\ started = 0
    /\ repo = TRUE
    /\ reviewerPool = NoPool
    /\ draw = NoDraw

\* a call of Storage.SavePullRequest; the record keeps the id, the payload,
\* whether the transaction could go through, and the error
SaveCall(s, id, pr, commit) ==
    /\ LET r == SavePullRequest(dbPRs, id, pr, commit)
       IN /\ dbPRs' = r.prs
          /\ slot' = [slot EXCEPT ![s] = [Idle EXCEPT !.op = "save", !.pr = id, !.snap = pr,
                                                       !.flag = commit, !.err = r.err]]
    /\ UNCHANGED <<dbTeams, dbUsers, users, pending, started, repo, reviewerPool, draw>>

NextStore ==
    \E id \in PRIds, pr \in SavePayloads, commit \in BOOLEAN : SaveCall(1, id, pr, commit)

StoreSpec == InitStore /\ [][NextStore]_vars

\* ---------------------------------------------------------------- the pool alone

\* the planner's pool before collectReplacementCandidates has filled it
InitPool ==
    /\ dbTeams = {}
    /\ dbUsers = EmptyMap
    /\ dbPRs = EmptyMap
    /\ users = EmptyMap
    /\ slot = [s \in Slots |-> Idle]
    /\ pending = EmptyMap
    /\ started = 0
    /\ repo = TRUE
    /\ reviewerPool = NoPool
    /\ draw = NoDraw

\* collectReplacementCandidates on a team view (its members in the order
\* GetTeam lists them, user_id -> is_active) and a target set, and
\* newReviewerPool on the result
NewPool(order, members, targetSet) ==
    /\ reviewerPool' = newReviewerPool(collectReplacementCandidates(order, members, targetSet))
    /\ draw' = [NoDraw EXCEPT !.op = "new", !.members = members, !.exclude = targetSet,
                              !.ok = TRUE]
    /\ UNCHANGED <<dbTeams, dbUsers, dbPRs, users, slot, pending, started, repo>>

\* reviewerPool.take on the pool
Take(exclude) ==
    /\ draw.op # "none"
    /\ LET t == take(reviewerPool, exclude)
       IN /\ reviewerPool' = t.pool
          /\ draw' = [NoDraw EXCEPT !.op = "take", !.exclude = exclude, !.ok = t.ok,
                                    !.id = t.id]
    /\ UNCHANGED <<dbTeams, dbUsers, dbPRs, users, slot, pending, started, repo>>

\* the members of the team views and of the target and exclusion sets
PoolUsers == {"u1", "u2", "u3"}

NextPool ==
    \/ \E S \in SUBSET PoolUsers :
          \E members \in [S -> BOOLEAN], order \in Perms(S), targetSet \in SUBSET PoolUsers :
              NewPool(order, members, targetSet)
    \/ \E exclude \in SUBSET PoolUsers : Take(exclude)

PoolSpec == InitPool /\ [][NextPool]_vars

\* ---------------------------------------------------------------- claims

\* C1: in every reachable state every pull request's stored reviewer set has
\* at most 2 ids (the rows of pull_request_reviewers never repeat an id of one
\* pull request: its primary key)
C1_AtMostTwoReviewers ==
    \A id \in DOMAIN dbPRs : Cardinality(dbPRs[id].reviewers) <= 2

\* C2: a pull request that is stored with status MERGED is never stored with
\* status OPEN by a later step, whatever the step is (create, merge, reassign,
\* bulk deactivation)
C2_MergedIsTerminal ==
    [][\A id \in DOMAIN dbPRs :
          dbPRs[id].status = MERGED => dbPRs'[id].status = MERGED]_vars

\* the step in which the reassign of slot s saves and returns success
ReassignSucceeds(s) ==
    /\ slot[s].pc = "reassign_save"
    /\ slot'[s].pc = "idle"
    /\ slot'[s].op = "reassign"
    /\ slot'[s].err = NoErr

\* C3: when reassign(prID, oldReviewerID) succeeds the stored reviewer set has
\* the size it had before, no longer contains oldReviewerID, and contains
\* exactly one id that was not in it before; that id is of the team of
\* oldReviewerID, differs from oldReviewerID and from every reviewer the pull
\* request had before
C3_ReassignReplacesOne ==
    [][\A s \in Slots :
          ReassignSucceeds(s) =>
              LET before == dbPRs[slot[s].pr].reviewers
                  after == dbPRs'[slot[s].pr].reviewers
                  old == slot[s].user
              IN /\ Cardinality(after) = Cardinality(before)
                 /\ old \notin after
                 /\ \E new \in after \ before :
                       /\ after \ before = {new}
                       /\ after = (before \ {old}) \cup {new}
                       /\ new = slot'[s].newRev
                       /\ new # old
                       /\ dbUsers[new].team = dbUsers[old].team]_vars

\* a reassign has succeeded: the pull request holds the new reviewer and not
\* the old one
C3_Witness ==
    \E s \in Slots :
        /\ slot[s].op = "reassign" /\ slot[s].pc = "idle" /\ slot[s].err = NoErr
        /\ slot[s].newRev \in dbPRs[slot[s].pr].reviewers
        /\ slot[s].user \notin dbPRs[slot[s].pr].reviewers
        /\ Cardinality(dbPRs[slot[s].pr].reviewers) = 2

\* the step in which the bulk deactivation of slot s returns NoCandidate
BulkFindsNoCandidate(s) ==
    /\ slot[s].pc = "idle"
    /\ slot'[s].op = "bulk"
    /\ slot'[s].err = ErrNoCandidate
    /\ started' = started + 1
    /\ \A r \in Slots \ {s} : slot'[r] = slot[r]

\* C4: bulk deactivation is all-or-nothing: when a targeted reviewer slot of an
\* open pull request cannot get a replacement the operation returns
\* NoCandidate from its planning step, the store transaction is not attempted
\* (the handler is back to idle, not waiting to apply), no pull request changes
\* and no user's active flag changes in the store or in the cache
C4_BulkAllOrNothing ==
    [][\A s \in Slots :
          BulkFindsNoCandidate(s) =>
              /\ slot'[s].pc = "idle"
              /\ slot'[s].swaps = <<>> /\ slot'[s].deact = <<>>
              /\ dbPRs' = dbPRs
              /\ dbUsers' = dbUsers
              /\ dbTeams' = dbTeams
              /\ users' = users
              /\ OpenPRsWith(dbPRs, Range(slot'[s].targets)) # {}]_vars

\* a bulk deactivation returned NoCandidate while an open pull request still
\* has a targeted reviewer and every target is still active in the store
C4_Witness ==
    \E s \in Slots :
        /\ slot[s].op = "bulk" /\ slot[s].pc = "idle" /\ slot[s].err = ErrNoCandidate
        /\ OpenPRsWith(dbPRs, Range(slot[s].targets)) # {}
        /\ \A u \in Range(slot[s].targets) : dbUsers[u].active

\* the step in which the merge of slot s saves and returns success
MergeSucceeds(s) ==
    /\ slot[s].pc = "merge_save"
    /\ slot'[s].pc = "idle"
    /\ slot'[s].op = "merge"
    /\ slot'[s].err = NoErr

\* C5: merge is idempotent: a merge of a pull request that is stored MERGED
\* saves nothing (status, merge time and reviewers stay) and starts no
\* reviewer reactivation, so of two merges of one pull request, sequential or
\* concurrent, only one applies the side effect
C5_MergeIdempotent ==
    [][\A s \in Slots :
          (MergeSucceeds(s) /\ dbPRs[slot[s].pr].status = MERGED) =>
              /\ dbPRs' = dbPRs
              /\ pending' = pending]_vars

\* the step in which the store transaction of the bulk deactivation of slot s commits
BulkCommits(s) ==
    /\ slot[s].pc = "bulk_apply"
    /\ slot'[s].pc = "bulk_sync"

\* C6: after a bulk deactivation succeeds, with no other operation in between,
\* no OPEN pull request has a targeted user among its stored reviewers, and
\* every pull request has as many reviewers as before the call
C6_BulkRemovesTargets ==
    [][\A s \in Slots :
          BulkCommits(s) =>
              /\ OpenPRsWith(dbPRs', Range(slot[s].targets)) = {}
              /\ \A id \in DOMAIN dbPRs :
                    /\ Cardinality(dbPRs'[id].reviewers) = Cardinality(dbPRs[id].reviewers)
                    /\ dbPRs'[id].status = dbPRs[id].status]_vars

\* a bulk deactivation succeeded with a swap: the pull request of the swap is
\* open and holds the replacement in place of the target
C6_Witness ==
    \E s \in Slots :
        /\ slot[s].op = "bulk" /\ slot[s].pc = "idle" /\ slot[s].err = NoErr
        /\ \E i \in 1..Len(slot[s].swaps) :
              LET sw == slot[s].swaps[i]
              IN /\ dbPRs[sw.pr].status = OPEN
                 /\ sw.new \in dbPRs[sw.pr].reviewers
                 /\ sw.old \notin dbPRs[sw.pr].reviewers
                 /\ Contains(slot[s].targets, sw.old)

\* C7: in a successful bulk swap plan every replacement assigned to a pull
\* request is an active member of the team that is not targeted, was not a
\* reviewer of that pull request before the operation, and differs from every
\* other replacement assigned to the same pull request
C7_PlanReplacements ==
    \A s \in Slots :
        slot[s].pc = "bulk_apply" =>
            LET swaps == slot[s].swaps
            IN /\ \A i \in 1..Len(swaps) :
                     /\ swaps[i].new \in StoreTeamMembers(dbUsers, slot[s].team)
                     /\ dbUsers[swaps[i].new].active
                     /\ ~Contains(slot[s].targets, swaps[i].new)
                     /\ swaps[i].new \notin dbPRs[swaps[i].pr].reviewers
               /\ \A i, j \in 1..Len(swaps) :
                     (i # j /\ swaps[i].pr = swaps[j].pr) => swaps[i].new # swaps[j].new

\* a plan that replaces both reviewers of one pull request
C7_Witness ==
    \E s \in Slots :
        /\ slot[s].pc = "bulk_apply"
        /\ Len(slot[s].swaps) = 2
        /\ slot[s].swaps[1].pr = slot[s].swaps[2].pr

\* the step in which the bulk deactivation of slot s returns success
BulkSucceeds(s) ==
    /\ slot[s].pc = "bulk_sync"
    /\ slot'[s].pc = "idle"
    /\ slot'[s].op = "bulk"
    /\ slot'[s].err = NoErr

\* C8: when a bulk deactivation returns success every id of its deactivation
\* list (the targets and the replacements drawn) is inactive in the store and,
\* when it is cached, in the directory
C8_BulkDeactivatesAll ==
    [][\A s \in Slots :
          BulkSucceeds(s) =>
              /\ Range(slot'[s].deact) =
                     Range(slot'[s].targets) \cup Range(replacementIDs(slot'[s].swaps))
              /\ \A u \in Range(slot'[s].deact) :
                    /\ ~dbUsers'[u].active
                    /\ u \in DOMAIN users' => ~users'[u].active]_vars

\* a bulk deactivation returned success after drawing a replacement; the
\* replacement is cached
C8_Witness ==
    \E s \in Slots :
        /\ slot[s].op = "bulk" /\ slot[s].pc = "idle" /\ slot[s].err = NoErr
        /\ slot[s].swaps # <<>>
        /\ Len(slot[s].deact) > Len(slot[s].targets)
        /\ slot[s].swaps[1].new \in DOMAIN users
        /\ ~users[slot[s].swaps[1].new].active
        /\ ~dbUsers[slot[s].swaps[1].new].active

\* C9: after a reassign succeeded and every pending activity update has run,
\* in whatever order, the old reviewer is active and the new reviewer is
\* inactive in the directory
C9_ReassignSettles ==
    \A s \in Slots :
        (/\ slot[s].op = "reassign" /\ slot[s].pc = "idle" /\ slot[s].err = NoErr
         /\ pending = EmptyMap) =>
            /\ users[slot[s].user].active
            /\ ~users[slot[s].newRev].active

\* C10: after a merge of an OPEN pull request succeeded and every pending
\* activity update has run, every cached reviewer of the pull request is
\* active in the directory
C10_MergeSettles ==
    \A s \in Slots :
        (/\ slot[s].op = "merge" /\ slot[s].pc = "idle" /\ slot[s].err = NoErr
         /\ dbPRs[slot[s].pr].mergedAt = started
         /\ pending = EmptyMap) =>
            \A u \in dbPRs[slot[s].pr].reviewers \cap DOMAIN users : users[u].active

\* the step in which the create of slot s starts (up to its SavePullRequest)
CreateBegins(s) ==
    /\ slot[s].pc = "idle"
    /\ slot'[s].op = "create"
    /\ started' = started + 1
    /\ \A r \in Slots \ {s} : slot'[r] = slot[r]

\* the step in which the create of slot s has called SavePullRequest and returns
CreateReturns(s) ==
    /\ slot[s].pc = "create_save"
    /\ slot'[s].pc = "idle"
    /\ slot'[s].op = "create"

\* the smaller of two naturals
Min(a, b) == IF a <= b THEN a ELSE b

\* C11: create for an author whose team has k active cached members picks
\* exactly min(2, k) distinct active members of that team and, when the save
\* commits, stores the pull request OPEN with exactly them; it fails only when
\* the author's team cannot be resolved (the author is neither cached nor
\* stored) or when the save fails, never for having fewer than two reviewers
C11_CreateAssignsUpToTwo ==
    [][\A s \in Slots :
          /\ CreateBegins(s) =>
                IF slot'[s].pc = "idle"
                THEN /\ slot'[s].err = ErrNotFound
                     /\ slot'[s].user \notin DOMAIN users \cup DOMAIN dbUsers
                ELSE LET author == slot'[s].user
                         act == ActiveInTeam(users', users'[author].team)
                         revs == slot'[s].revs
                     IN /\ slot'[s].user \in DOMAIN users \cup DOMAIN dbUsers
                        /\ revs \subseteq act
                        /\ Cardinality(revs) = Min(2, Cardinality(act))
                        /\ Range(slot'[s].snap.reviewers) = revs
                        /\ slot'[s].snap.status = OPEN
          /\ CreateReturns(s) =>
                IF slot'[s].err = NoErr
                THEN /\ dbPRs'[slot[s].pr].status = OPEN
                     /\ dbPRs'[slot[s].pr].author = slot[s].user
                     /\ dbPRs'[slot[s].pr].reviewers = slot[s].revs
                ELSE /\ slot'[s].err = ErrStore
                     /\ dbPRs' = dbPRs]_vars

\* a create has succeeded with fewer than two reviewers
C11_Witness ==
    \E s \in Slots :
        /\ slot[s].op = "create" /\ slot[s].pc = "idle" /\ slot[s].err = NoErr
        /\ dbPRs[slot[s].pr].status = OPEN
        /\ Cardinality(dbPRs[slot[s].pr].reviewers) < 2

\* the deactivation goroutine the create of slot s started for its reviewers
CreateTask(s) == [ids |-> slot[s].revs, status |-> FALSE]

\* C12: CreatePullRequest changes the active flag of the chosen reviewers only
\* after SavePullRequest has committed: while the save is still to come its
\* deactivation does not run, and when the save fails no deactivation of the
\* chosen reviewers is left to run
C12_DeactivateAfterCommit ==
    [][\A s \in Slots :
          /\ (/\ slot[s].pc = "create_save"
              /\ CreateTask(s) \in DOMAIN pending
              /\ pending' = BagRemove(pending, CreateTask(s))) => users' = users
          /\ (CreateReturns(s) /\ slot'[s].err # NoErr) =>
                CreateTask(s) \notin DOMAIN pending']_vars

\* the step in which the bulk deactivation of slot s has planned: it passed
\* its validation and either holds a plan or returns NoCandidate
BulkPlans(s) ==
    /\ slot[s].pc = "idle"
    /\ slot'[s].op = "bulk"
    /\ started' = started + 1
    /\ slot'[s].err \in {NoErr, ErrNoCandidate}
    /\ \A r \in Slots \ {s} : slot'[r] = slot[r]

\* the targeted reviewer slots: (open pull request, targeted reviewer of it)
TargetSlots(prs, targetSet) ==
    {x \in (DOMAIN prs) \X Users :
        prs[x[1]].status = OPEN /\ x[2] \in prs[x[1]].reviewers \cap targetSet}

\* the candidate pool: the stored members of the team that are active and not targeted
PoolOf(team, targetSet) ==
    {u \in StoreTeamMembers(dbUsers, team) : dbUsers[u].active /\ u \notin targetSet}

\* one active member that is not targeted, and one open pull request, reviewed
\* by two targets
OneCandidateTwoSlots(team, targetSet) ==
    /\ Cardinality(PoolOf(team, targetSet)) = 1
    /\ \E id \in DOMAIN dbPRs :
          /\ OpenPRsWith(dbPRs, targetSet) = {id}
          /\ Cardinality(dbPRs[id].reviewers) = 2
          /\ dbPRs[id].reviewers \subseteq targetSet

\* C13: a replacement candidate is drawn at most once within one bulk
\* operation: a plan never holds one replacement twice, and the operation
\* returns NoCandidate whenever the targeted reviewer slots of the open pull
\* requests outnumber the pool; with one active member that is not targeted and
\* one open pull request reviewed by two targets the plan gives that member to
\* the slot it processes first and fails NoCandidate at the second
C13_CandidateDrawnOnce ==
    [][\A s \in Slots :
          BulkPlans(s) =>
              LET targetSet == Range(slot'[s].targets)
                  team == slot'[s].team
                  swaps == slot'[s].swaps
                  pool == PoolOf(team, targetSet)
              IN /\ \A i, j \in 1..Len(swaps) : i # j => swaps[i].new # swaps[j].new
                 /\ Cardinality(TargetSlots(dbPRs, targetSet)) > Cardinality(pool)
                        => slot'[s].err = ErrNoCandidate
                 /\ slot'[s].err = NoErr
                        => Len(swaps) = Cardinality(TargetSlots(dbPRs, targetSet))
                 /\ OneCandidateTwoSlots(team, targetSet) =>
                        /\ slot'[s].err = ErrNoCandidate
                        /\ \A z \in pool, id \in OpenPRsWith(dbPRs, targetSet) :
                              LET plan == planBulkReviewerSwaps(dbPRs, <<id>>, targetSet,
                                                                newReviewerPool(<<z>>))
                              IN /\ plan.err = ErrNoCandidate
                                 /\ plan.failed = id
                                 /\ plan.swaps =
                                       <<[pr |-> id,
                                          old |-> SortedSeq(dbPRs[id].reviewers)[1],
                                          new |-> z]>>]_vars

\* a bulk deactivation returned NoCandidate with one candidate for the two
\* targeted reviewers of the one open pull request
C13_Witness ==
    \E s \in Slots :
        /\ slot[s].op = "bulk" /\ slot[s].pc = "idle" /\ slot[s].err = ErrNoCandidate
        /\ OneCandidateTwoSlots(slot[s].team, Range(slot[s].targets))

\* the step in which getTeam is called right after a successful addTeam of the
\* same team name
GetTeamAfterAddTeam(s) ==
    /\ slot[s].op = "addTeam" /\ slot[s].pc = "idle" /\ slot[s].err = NoErr
    /\ slot'[s].op = "getTeam"
    /\ slot'[s].team = slot[s].team
    /\ started' = started + 1

\* C14: after addTeam succeeded for a team with N members (N >= 0), getTeam
\* for that team name returns exactly those N member ids, when the store
\* serves the read and when the cache fallback serves it
C14_AddTeamGetTeamRoundTrip ==
    [][\A s \in Slots :
          GetTeamAfterAddTeam(s) =>
              /\ slot'[s].err = NoErr
              /\ DOMAIN slot'[s].members = Range(slot[s].targets)]_vars

\* the step that is a call of SetUserActivity by slot s
SetUserActivityCall(s) ==
    /\ slot[s].pc = "idle"
    /\ slot'[s].op = "setUserActivity"
    /\ started' = started + 1
    /\ \A r \in Slots \ {s} : slot'[r] = slot[r]

\* C15: SetUserActivity(userID, active): when it returns an error (the store
\* write failed, or the user is not cached) the cache is as it was before the
\* call, the flag of userID included, and so is the store; when it succeeds
\* the cache and, when one is attached, the store hold the new value
C15_SetUserActivityRollsBack ==
    [][\A s \in Slots :
          SetUserActivityCall(s) =>
              LET u == slot'[s].user
              IN IF slot'[s].err = NoErr
                 THEN /\ u \in DOMAIN users
                      /\ users'[u].active = slot'[s].flag
                      /\ repo => (u \in DOMAIN dbUsers' /\ dbUsers'[u].active = slot'[s].flag)
                 ELSE /\ users' = users
                      /\ dbUsers' = dbUsers]_vars

\* SetUserActivity failed in the store for a cached user whose flag differs
\* from the requested one: the cache still holds the old flag
C15_Witness ==
    \E s \in Slots :
        /\ slot[s].op = "setUserActivity" /\ slot[s].pc = "idle"
        /\ slot[s].err = ErrStore
        /\ slot[s].user \in DOMAIN users
        /\ users[slot[s].user].active # slot[s].flag
        /\ dbUsers[slot[s].user].active = users[slot[s].user].active

\* C16: whenever no asynchronous activity update is pending (and no handler is
\* in the middle of a request), every user in the cache has the same active
\* flag in the cache as in the store
C16_CacheMatchesStore ==
    (pending = EmptyMap /\ \A s \in Slots : slot[s].pc = "idle") =>
        \A u \in DOMAIN users \cap DOMAIN dbUsers : users[u].active = dbUsers[u].active

\* the step that is a call of AddTeam by slot s
AddTeamCall(s) ==
    /\ slot[s].pc = "idle"
    /\ slot'[s].op = "addTeam"
    /\ started' = started + 1
    /\ \A r \in Slots \ {s} : slot'[r] = slot[r]

\* the ids of a payload hold an empty id or one id twice
BadMemberIDs(ids) ==
    \/ \E i \in 1..Len(ids) : ids[i] = ""
    \/ \E i, j \in 1..Len(ids) : i # j /\ ids[i] = ids[j]

\* C17: addTeam rejects a payload with an empty member id or with one member
\* id twice, with its validation error, before it calls the store and without
\* changing the cache; it returns that error for no other payload
C17_AddTeamValidates ==
    [][\A s \in Slots :
          AddTeamCall(s) =>
              /\ BadMemberIDs(slot'[s].targets) =>
                    /\ slot'[s].err = ErrInvalid
                    /\ users' = users
                    /\ dbTeams' = dbTeams
                    /\ dbUsers' = dbUsers
              /\ slot'[s].err = ErrInvalid => BadMemberIDs(slot'[s].targets)]_vars

\* addTeam rejected a payload that names one user twice, for a team name that
\* is free: neither the store nor the cache know the team
C17_Witness ==
    \E s \in Slots :
        /\ slot[s].op = "addTeam" /\ slot[s].pc = "idle" /\ slot[s].err = ErrInvalid
        /\ \E i, j \in 1..Len(slot[s].targets) :
              i # j /\ slot[s].targets[i] = slot[s].targets[j]
        /\ slot[s].team \notin dbTeams
        /\ \A u \in DOMAIN users : users[u].team # slot[s].team

\* the store refused the AddTeam of slot s: the team name is taken, or the
\* transaction failed
AddTeamStoreFails(s) ==
    /\ AddTeamCall(s)
    /\ slot'[s].err \in {ErrTeamExists, ErrStore}

\* C18 as stated: when the store fails, a team name collision included, the
\* cache is unchanged and the store holds neither the team nor any user row of
\* the payload
C18_FailedAddTeamLeavesNoRows ==
    [][\A s \in Slots :
          AddTeamStoreFails(s) =>
              /\ users' = users
              /\ slot'[s].team \notin dbTeams'
              /\ \A u \in Range(slot'[s].targets) : u \notin DOMAIN dbUsers']_vars

\* C18, amended: addTeam puts the team's users into the cache only after
\* CreateTeamWithMembers succeeded; when the store fails, a team name collision
\* included, the cache and the store are unchanged (the transaction is rolled
\* back: what it would have written is not there, while the colliding team and
\* the rows the payload's users had before remain as they were)
C18_FailedAddTeamChangesNothing ==
    [][\A s \in Slots :
          /\ AddTeamStoreFails(s) =>
                /\ users' = users
                /\ dbTeams' = dbTeams
                /\ dbUsers' = dbUsers
          /\ (AddTeamCall(s) /\ users' # users) =>
                /\ slot'[s].err = NoErr
                /\ repo => /\ slot'[s].team \in dbTeams' \ dbTeams
                           /\ \A u \in Range(slot'[s].targets) :
                                 /\ u \in DOMAIN dbUsers'
                                 /\ dbUsers'[u] = users'[u]
                                 /\ users'[u].team = slot'[s].team]_vars

\* an addTeam collided with a stored team name: a user of its payload is not
\* in the cache and has no row in the store
C18_Witness ==
    \E s \in Slots :
        /\ slot[s].op = "addTeam" /\ slot[s].pc = "idle" /\ slot[s].err = ErrTeamExists
        /\ slot[s].team \in dbTeams
        /\ \E u \in Range(slot[s].targets) : u \notin DOMAIN users \cup DOMAIN dbUsers

\* the step that is a call of FindReplacementReviewer by slot s
FindReplacementCalled(s) ==
    /\ slot[s].pc = "idle"
    /\ slot'[s].op = "findReplacement"
    /\ started' = started + 1
    /\ \A r \in Slots \ {s} : slot'[r] = slot[r]

\* the cached users FindReplacementReviewer(team, excludeIDs) may return
Eligible(team, excludeIDs) ==
    {u \in DOMAIN users :
        users[u].team = team /\ users[u].active /\ ~Contains(excludeIDs, u)}

\* C19: FindReplacementReviewer(teamID, excludeIDs) returns an id only of a
\* cached user of team teamID that is active and not in excludeIDs, and it
\* fails with NoCandidate exactly when the cache holds no such user
C19_FindReplacementEligible ==
    [][\A s \in Slots :
          FindReplacementCalled(s) =>
              LET eligible == Eligible(slot'[s].team, slot'[s].targets)
              IN /\ users' = users
                 /\ IF eligible = {}
                    THEN slot'[s].err = ErrNoCandidate /\ slot'[s].newRev = ""
                    ELSE slot'[s].err = NoErr /\ slot'[s].newRev \in eligible]_vars

\* FindReplacementReviewer returned a user while the cache also holds an
\* excluded user of the team
C19_Witness ==
    \E s \in Slots :
        /\ slot[s].op = "findReplacement" /\ slot[s].pc = "idle" /\ slot[s].err = NoErr
        /\ slot[s].newRev \in Eligible(slot[s].team, slot[s].targets)
        /\ \E u \in DOMAIN users :
              users[u].team = slot[s].team /\ Contains(slot[s].targets, u)

\* the step that is a call of GetUserTeam by slot s
GetUserTeamCalled(s) ==
    /\ slot[s].pc = "idle"
    /\ slot'[s].op = "getUserTeam"
    /\ started' = started + 1
    /\ \A r \in Slots \ {s} : slot'[r] = slot[r]

GetTeamCalled(s) ==
    /\ slot[s].pc = "idle"
    /\ slot'[s].op = "getTeam"
    /\ started' = started + 1
    /\ \A r \in Slots \ {s} : slot'[r] = slot[r]

\* the team view built from the cache entries of a team: user_id -> is_active
CacheTeam(team) ==
    [u \in {v \in DOMAIN users : users[v].team = team} |-> users[u].active]

\* C21: GetTeam returns the store's team whenever the store has it; it builds
\* the team from the cache entries only when no store is attached or the store
\* reports NotFound; it fails with NotFound when neither has the team; and a
\* store error other than NotFound is returned without looking at the cache
C21_GetTeamPrefersStore ==
    [][\A s \in Slots :
          GetTeamCalled(s) =>
              LET team == slot'[s].team
                  res == slot'[s]
              IN /\ UNCHANGED <<users, dbTeams, dbUsers>>
                 /\ IF res.fail
                    THEN res.err = ErrStore /\ res.members = EmptyMap
                    ELSE IF repo /\ team \in dbTeams
                    THEN /\ res.err = NoErr
                         /\ res.members =
                                [u \in {v \in DOMAIN dbUsers : dbUsers[v].team = team} |->
                                    dbUsers[u].active]
                    ELSE IF DOMAIN CacheTeam(team) = {}
                    THEN res.err = ErrNotFound /\ res.members = EmptyMap
                    ELSE res.err = NoErr /\ res.members = CacheTeam(team)]_vars

\* GetTeam has answered with the store's team while the cache holds a
\* different set of members of that team
C21_Witness ==
    \E s \in Slots :
        /\ slot[s].op = "getTeam" /\ slot[s].pc = "idle" /\ slot[s].err = NoErr
        /\ repo /\ slot[s].team \in dbTeams
        /\ DOMAIN slot[s].members # {}
        /\ DOMAIN slot[s].members # DOMAIN CacheTeam(slot[s].team)

\* GetTeam has returned the store's error although the cache holds members of
\* the team
C21_WitnessStoreError ==
    \E s \in Slots :
        /\ slot[s].op = "getTeam" /\ slot[s].fail /\ slot[s].err = ErrStore
        /\ DOMAIN CacheTeam(slot[s].team) # {}

\* the step that is a call of SetActivity by slot s
SetActivityCalled(s) ==
    /\ slot[s].pc = "idle"
    /\ slot'[s].op = "setActivity"
    /\ started' = started + 1
    /\ \A r \in Slots \ {s} : slot'[r] = slot[r]

\* C22: SetActivity(ids, status) sets the cached flag of exactly the listed
\* ids that are cached, never returns an error, makes no cache entry for an id
\* that is not cached, and changes no other user's flag, no user's team and
\* nothing in the store
C22_SetActivityFrame ==
    [][\A s \in Slots :
          SetActivityCalled(s) =>
              LET ids == Range(slot'[s].targets)
              IN /\ slot'[s].err = NoErr
                 /\ DOMAIN users' = DOMAIN users
                 /\ \A u \in DOMAIN users :
                        /\ users'[u].team = users[u].team
                        /\ users'[u].active =
                               IF u \in ids THEN slot'[s].flag ELSE users[u].active
                 /\ UNCHANGED <<dbTeams, dbUsers, dbPRs>>]_vars

\* SetActivity has been called with a cached id, whose flag it changed in the
\* cache only, and an id that is not cached
C22_Witness ==
    \E s \in Slots :
        /\ slot[s].op = "setActivity" /\ slot[s].pc = "idle"
        /\ \E u \in Range(slot[s].targets) : u \notin DOMAIN users
        /\ \E v \in Range(slot[s].targets) :
              /\ v \in DOMAIN users /\ v \in DOMAIN dbUsers
              /\ users[v].active = slot[s].flag
              /\ dbUsers[v].active # slot[s].flag

\* the step that is a call of PrimeCacheUser by slot s
PrimeCacheUserCalled(s) ==
    /\ slot[s].pc = "idle"
    /\ slot'[s].op = "primeCacheUser"
    /\ started' = started + 1
    /\ \A r \in Slots \ {s} : slot'[r] = slot[r]

\* C23: PrimeCacheUser(userID) changes the cache only by inserting a user that
\* was absent: an entry that is cached keeps its value (its active flag in
\* particular), and when no store is attached or the lookup fails the call
\* returns an error and the cache is unchanged
C23_PrimeCacheInsertsOnly ==
    [][\A s \in Slots :
          PrimeCacheUserCalled(s) =>
              /\ \A u \in DOMAIN users : u \in DOMAIN users' /\ users'[u] = users[u]
              /\ (~repo \/ slot'[s].fail \/ slot'[s].user \notin DOMAIN dbUsers) =>
                     (slot'[s].err # NoErr /\ users' = users)]_vars

\* the steps of Reassign in slot s: the load and its checks, the choice of the
\* replacement, the save
ReassignBegins(s) ==
    /\ slot[s].pc = "idle"
    /\ slot'[s].op = "reassign"
    /\ started' = started + 1
    /\ \A r \in Slots \ {s} : slot'[r] = slot[r]

ReassignPicks(s) ==
    /\ slot[s].pc = "reassign_pick"
    /\ slot'[s].pc # "reassign_pick"
    /\ slot'[s].op = "reassign"

ReassignSaves(s) ==
    /\ slot[s].pc = "reassign_save"
    /\ slot'[s].pc = "idle"
    /\ slot'[s].op = "reassign"

\* slot s returns err from Reassign
ReassignFails(s, err) == slot'[s].pc = "idle" /\ slot'[s].err = err

\* C24: Reassign checks its failure conditions in the order NotFound (no such
\* pull request), PRMerged, NotAssigned (the old reviewer is not a reviewer),
\* NotFound (the old reviewer's team is unknown), NoCandidate, and returns the
\* first that applies; whenever it fails, a failed save included, no pull
\* request is modified, no user's active flag changes and no activity
\* goroutine is started
C24_ReassignErrorOrder ==
    [][\A s \in Slots :
          /\ ReassignBegins(s) =>
                LET id == slot'[s].pr
                    old == slot'[s].user
                IN /\ UNCHANGED <<dbPRs, dbUsers, users, pending>>
                   /\ IF id \notin DOMAIN dbPRs THEN ReassignFails(s, ErrNotFound)
                      ELSE IF dbPRs[id].status = MERGED THEN ReassignFails(s, ErrPRMerged)
                      ELSE IF old \notin dbPRs[id].reviewers
                      THEN ReassignFails(s, ErrNotAssigned)
                      ELSE slot'[s].pc = "reassign_pick"
          /\ ReassignPicks(s) =>
                LET old == slot[s].user
                    known == old \in DOMAIN users \/ old \in DOMAIN dbUsers
                    team == IF old \in DOMAIN users THEN users[old].team
                            ELSE dbUsers[old].team
                    taken == Range(slot[s].snap.reviewers) \cup {old}
                IN /\ UNCHANGED <<dbPRs, dbUsers, pending>>
                   /\ \A u \in DOMAIN users : u \in DOMAIN users' /\ users'[u] = users[u]
                   /\ \A u \in DOMAIN users' \ DOMAIN users :
                          u \in DOMAIN dbUsers /\ users'[u] = dbUsers[u]
                   /\ IF ~known THEN ReassignFails(s, ErrNotFound)
                      ELSE IF \A u \in DOMAIN users :
                                 ~(users[u].team = team /\ users[u].active /\ u \notin taken)
                      THEN ReassignFails(s, ErrNoCandidate)
                      ELSE slot'[s].pc = "reassign_save"
          /\ (ReassignSaves(s) /\ slot'[s].err # NoErr) =>
                UNCHANGED <<dbPRs, dbUsers, users, pending>>]_vars

\* Reassign has answered PRMerged for a MERGED pull request whose reviewers do
\* not include the old reviewer
C24_Witness ==
    \E s \in Slots :
        /\ slot[s].op = "reassign" /\ slot[s].pc = "idle" /\ slot[s].err = ErrPRMerged
        /\ slot[s].pr \in DOMAIN dbPRs
        /\ dbPRs[slot[s].pr].status = MERGED
        /\ slot[s].user \notin dbPRs[slot[s].pr].reviewers

\* the steps of Merge in slot s: the load, the save
MergeBegins(s) ==
    /\ slot[s].pc = "idle"
    /\ slot'[s].op = "merge"
    /\ started' = started + 1
    /\ \A r \in Slots \ {s} : slot'[r] = slot[r]

MergeSaves(s) ==
    /\ slot[s].pc = "merge_save"
    /\ slot'[s].pc = "idle"
    /\ slot'[s].op = "merge"

\* C25: Merge fails with NotFound when the pull request does not exist, and a
\* merge that fails (no such pull request, or the save fails) leaves every
\* stored pull request and every user's active flag as they were and starts
\* no activity goroutine
C25_FailedMergeChangesNothing ==
    [][\A s \in Slots :
          /\ MergeBegins(s) =>
                /\ UNCHANGED <<dbPRs, dbUsers, users, pending>>
                /\ IF slot'[s].pr \notin DOMAIN dbPRs
                   THEN slot'[s].pc = "idle" /\ slot'[s].err = ErrNotFound
                   ELSE slot'[s].err = NoErr
          /\ (MergeSaves(s) /\ slot'[s].err # NoErr) =>
                UNCHANGED <<dbPRs, dbUsers, users, pending>>]_vars

\* Merge has answered NotFound for an id that is not stored while another
\* pull request is
C25_Witness ==
    \E s \in Slots :
        /\ slot[s].op = "merge" /\ slot[s].pc = "idle" /\ slot[s].err = ErrNotFound
        /\ slot[s].pr \notin DOMAIN dbPRs
        /\ DOMAIN dbPRs # {}

\* the save of a Merge has failed: the pull request is stored OPEN with its
\* reviewers and nothing is to reactivate them
C25_WitnessFailedSave ==
    \E s \in Slots :
        /\ slot[s].op = "merge" /\ slot[s].pc = "idle" /\ slot[s].err = ErrStore
        /\ slot[s].pr \in DOMAIN dbPRs
        /\ dbPRs[slot[s].pr].status = OPEN
        /\ dbPRs[slot[s].pr].reviewers # {}
        /\ \A task \in DOMAIN pending : ~task.status

\* the step in which the store transaction of the bulk deactivation of slot s
\* fails and the handler returns
BulkApplyFails(s) ==
    /\ slot[s].pc = "bulk_apply"
    /\ slot'[s].pc = "idle"
    /\ slot'[s].op = "bulk"

\* C26: when ApplyBulkTeamReviewerSwaps fails (at a reviewer delete or insert,
\* at the update of the users, or at the commit), BulkDeactivateTeamMembers
\* returns an error, the store shows no partial effect (no swap applied, no
\* user deactivated) and the cache flags are not synchronized
C26_FailedBulkTxLeavesNoEffect ==
    [][\A s \in Slots :
          BulkApplyFails(s) =>
              /\ slot'[s].err = ErrStore
              /\ slot'[s].swaps = <<>> /\ slot'[s].deact = <<>>
              /\ UNCHANGED <<dbPRs, dbUsers, dbTeams, users, pending>>]_vars

\* the transaction of a bulk deactivation has failed: an open pull request
\* still has a targeted reviewer and every target is still active in the store
C26_Witness ==
    \E s \in Slots :
        /\ slot[s].op = "bulk" /\ slot[s].pc = "idle" /\ slot[s].err = ErrStore
        /\ OpenPRsWith(dbPRs, Range(slot[s].targets)) # {}
        /\ \A u \in Range(slot[s].targets) : dbUsers[u].active

\* the step that is the start of a bulk deactivation by slot s
BulkBegins(s) ==
    /\ slot[s].pc = "idle"
    /\ slot'[s].op = "bulk"
    /\ started' = started + 1
    /\ \A r \in Slots \ {s} : slot'[r] = slot[r]

\* where x comes first in q
FirstAt(q, x) == CHOOSE i \in 1..Len(q) : q[i] = x /\ \A j \in 1..(i - 1) : q[j] # x

\* C27: the bulk deactivation normalizes its target list: every id trimmed,
\* the empty ones dropped, every id once, in the order of first occurrence;
\* when nothing is left it fails with InvalidPayload and changes nothing
C27_TargetsNormalized ==
    [][\A s \in Slots :
          BulkBegins(s) =>
              LET raw == slot'[s].raw
                  trimmed == [i \in 1..Len(raw) |-> TrimSpace(raw[i])]
                  targets == slot'[s].targets
              IN /\ Range(targets) = Range(trimmed) \ {""}
                 /\ \A i, j \in 1..Len(targets) : i # j => targets[i] # targets[j]
                 /\ \A i, j \in 1..Len(targets) :
                        i < j => FirstAt(trimmed, targets[i]) < FirstAt(trimmed, targets[j])
                 /\ targets = <<>> =>
                        /\ slot'[s].pc = "idle" /\ slot'[s].err = ErrInvalid
                        /\ UNCHANGED <<dbPRs, dbUsers, dbTeams, users, pending>>]_vars

\* a bulk deactivation was asked with a padded id and a repeated id and took
\* two targets from them, the first one first
C27_Witness ==
    \E s \in Slots :
        /\ slot[s].op = "bulk" /\ slot[s].pc = "idle"
        /\ Len(slot[s].raw) > Len(slot[s].targets)
        /\ Len(slot[s].targets) = 2
        /\ \E i \in 1..Len(slot[s].raw) : TrimSpace(slot[s].raw[i]) # slot[s].raw[i]
        /\ slot[s].targets[1] = slot[s].raw[1]

\* a bulk deactivation was asked with blanks only and answered InvalidPayload
C27_WitnessEmpty ==
    \E s \in Slots :
        /\ slot[s].op = "bulk" /\ slot[s].pc = "idle" /\ slot[s].err = ErrInvalid
        /\ Len(slot[s].raw) = 2 /\ slot[s].targets = <<>>

\* the members GetTeam reports for a team: the store's when the store has the
\* team, else the cached users of that team
TeamView(team) ==
    IF team \in dbTeams THEN {u \in DOMAIN dbUsers : dbUsers[u].team = team}
    ELSE {u \in DOMAIN users : users[u].team = team}

\* C28: a bulk deactivation with a target that is not a member of the named
\* team, or for a team that does not exist, fails with NotFound whatever the
\* pull requests are, and changes no pull request and no user's active flag
C28_TargetsMustBeMembers ==
    [][\A s \in Slots :
          (BulkBegins(s) /\ slot'[s].targets # <<>>) =>
              IF Range(slot'[s].targets) \subseteq TeamView(slot'[s].team)
              THEN slot'[s].err # ErrNotFound
              ELSE /\ slot'[s].pc = "idle" /\ slot'[s].err = ErrNotFound
                   /\ slot'[s].swaps = <<>> /\ slot'[s].deact = <<>>
                   /\ UNCHANGED <<dbPRs, dbUsers, dbTeams, users, pending>>]_vars

\* a bulk deactivation has answered NotFound for a target that belongs to
\* another team and reviews an open pull request
C28_Witness ==
    \E s \in Slots :
        /\ slot[s].op = "bulk" /\ slot[s].pc = "idle" /\ slot[s].err = ErrNotFound
        /\ slot[s].team \in dbTeams
        /\ \E u \in Range(slot[s].targets) :
              /\ u \in DOMAIN dbUsers /\ dbUsers[u].team # slot[s].team
              /\ dbUsers[u].active
              /\ OpenPRsWith(dbPRs, {u}) # {}

\* a bulk deactivation has answered NotFound for a team that does not exist
C28_WitnessNoTeam ==
    \E s \in Slots :
        /\ slot[s].op = "bulk" /\ slot[s].pc = "idle" /\ slot[s].err = ErrNotFound
        /\ slot[s].team \notin dbTeams
        /\ TeamView(slot[s].team) = {}

\* the step that fills the pool
PoolFilled == draw'.op = "new" /\ draw' # draw

\* C29: the candidate pool of the bulk swap holds exactly the members of the
\* loaded team view that are active and not in the target set, each id once
C29_PoolIsActiveNonTargets ==
    [][PoolFilled =>
          LET members == draw'.members
              expected == {u \in DOMAIN members : members[u] /\ u \notin draw'.exclude}
          IN /\ reviewerPool'.available = expected
             /\ Range(reviewerPool'.queue) = expected
             /\ Len(reviewerPool'.queue) = Cardinality(expected)]_vars

\* a pool has been filled from a team view with an active member that is a
\* target, an inactive member that is not, and an active one that is not
C29_Witness ==
    /\ draw.op = "new"
    /\ \E u \in DOMAIN draw.members : draw.members[u] /\ u \in draw.exclude
    /\ \E u \in DOMAIN draw.members : ~draw.members[u] /\ u \notin draw.exclude
    /\ reviewerPool.available # {}
    /\ Len(reviewerPool.queue) = Cardinality(reviewerPool.available)

\* the step that is a draw from the pool
Draws == draw'.op = "take" /\ <<reviewerPool, draw>>' # <<reviewerPool, draw>>

\* the candidates in queue q from position i on, then those before it
Rotated(q, i) == SubSeq(q, i + 1, Len(q)) \o SubSeq(q, 1, i - 1)

\* C30: take(exclude) returns a candidate exactly when some available
\* candidate is not excluded; the candidate it returns leaves the pool for
\* all later draws; a candidate it passes over because it is excluded goes to
\* the back of the queue and stays available; a draw that fails leaves the
\* available candidates as they were
C30_TakeDrawsFirstAllowed ==
    [][Draws =>
          LET queue == reviewerPool.queue
              available == reviewerPool.available
              allowed == available \ draw'.exclude
          IN /\ draw'.ok <=> allowed # {}
             /\ Range(reviewerPool'.queue) = reviewerPool'.available
             /\ IF draw'.ok
                THEN /\ draw'.id \in allowed
                     /\ \A j \in 1..(FirstAt(queue, draw'.id) - 1) : queue[j] \in draw'.exclude
                     /\ reviewerPool'.available = available \ {draw'.id}
                     /\ reviewerPool'.queue = Rotated(queue, FirstAt(queue, draw'.id))
                ELSE /\ draw'.id = ""
                     /\ reviewerPool'.available = available
                     /\ reviewerPool'.queue = queue]_vars

\* a draw has passed over an excluded candidate, which is now last in the
\* queue and still available, and has returned another one, which is gone
C30_Witness ==
    /\ draw.op = "take" /\ draw.ok
    /\ draw.id \notin reviewerPool.available
    /\ Len(reviewerPool.queue) = 2
    /\ reviewerPool.queue[2] \in draw.exclude
    /\ reviewerPool.queue[2] \in reviewerPool.available

\* a draw has failed on a pool that is not empty
C30_WitnessFailedDraw ==
    /\ draw.op = "take" /\ ~draw.ok
    /\ reviewerPool.available # {}
    /\ reviewerPool.available \subseteq draw.exclude

\* there is a way to give every targeted reviewer slot its own candidate of
\* the pool, none of them a reviewer of the slot's pull request
AssignmentExists(team, targetSet) ==
    \E f \in [TargetSlots(dbPRs, targetSet) -> PoolOf(team, targetSet)] :
        /\ \A x, y \in DOMAIN f : x # y => f[x] # f[y]
        /\ \A x \in DOMAIN f : f[x] \notin dbPRs[x[1]].reviewers

\* two candidates and two targeted reviewer slots, on two open pull requests:
\* the newer one has neither candidate among its reviewers, the older one has
\* exactly one of them
NewerTakesEither(team, targetSet) ==
    /\ targetSet \subseteq StoreTeamMembers(dbUsers, team)
    /\ Cardinality(PoolOf(team, targetSet)) = 2
    /\ \E x, y \in TargetSlots(dbPRs, targetSet) :
          /\ TargetSlots(dbPRs, targetSet) = {x, y}
          /\ x[1] # y[1]
          /\ dbPRs[x[1]].createdAt > dbPRs[y[1]].createdAt
          /\ dbPRs[x[1]].reviewers \cap PoolOf(team, targetSet) = {}
          /\ Cardinality(dbPRs[y[1]].reviewers \cap PoolOf(team, targetSet)) = 1

\* C31: there are a candidate order and open pull requests for which the
\* planner fails with NoCandidate although every targeted reviewer slot could
\* get its own candidate that is no reviewer of its pull request: whenever the
\* newer of two pull requests can take either of two candidates and the older
\* one only one of them, such an assignment exists and the planner fails for
\* one of the orders in which GetTeam may list the members
C31_PlannerUnderUsesPool ==
    \A ids \in TargetLists :
        LET targets == normalizeTargetUserIDs(ids, <<>>)
        IN NewerTakesEither("t1", Range(targets)) =>
              /\ AssignmentExists("t1", Range(targets))
              /\ \E candidateIDs \in CandidateLists("t1", targets),
                    openPRs \in FindOpenPullRequestsByReviewers(dbPRs, Range(targets)) :
                     BulkPlan(targets, candidateIDs, openPRs).err = ErrNoCandidate

\* a bulk deactivation has failed with NoCandidate although every targeted
\* reviewer slot could have got a candidate
C31_Witness ==
    \E s \in Slots :
        /\ slot[s].op = "bulk" /\ slot[s].pc = "idle" /\ slot[s].err = ErrNoCandidate
        /\ TargetSlots(dbPRs, Range(slot[s].targets)) # {}
        /\ AssignmentExists(slot[s].team, Range(slot[s].targets))

\* C32: the id list the bulk deactivation hands to the store transaction and
\* to the cache sync is the normalized targets followed by the replacement of
\* every swap, in order (the targets alone, with no swap, when no open pull
\* request has a targeted reviewer); the transaction and the sync change the
\* flags of these ids and of no other; the result lists the targets as deactivated
C32_DeactivationList ==
    [][\A s \in Slots :
          /\ (BulkPlans(s) /\ slot'[s].err = NoErr) =>
                /\ slot'[s].targets = normalizeTargetUserIDs(slot'[s].raw, <<>>)
                /\ slot'[s].deact = slot'[s].targets \o replacementIDs(slot'[s].swaps)
                /\ Len(slot'[s].swaps) =
                       Cardinality(TargetSlots(dbPRs, Range(slot'[s].targets)))
                /\ OpenPRsWith(dbPRs, Range(slot'[s].targets)) = {} =>
                       /\ slot'[s].swaps = <<>>
                       /\ slot'[s].deact = slot'[s].targets
          /\ BulkCommits(s) =>
                /\ slot'[s].deact = slot[s].targets \o replacementIDs(slot[s].swaps)
                /\ \A u \in DOMAIN dbUsers :
                      dbUsers'[u] = IF u \in Range(slot[s].deact)
                                    THEN [dbUsers[u] EXCEPT !.active = FALSE]
                                    ELSE dbUsers[u]
          /\ BulkSucceeds(s) =>
                /\ slot'[s].deact = slot[s].targets \o replacementIDs(slot[s].swaps)
                /\ DOMAIN users' = DOMAIN users
                /\ \A u \in DOMAIN users :
                      users'[u] = IF u \in Range(slot[s].deact)
                                  THEN [users[u] EXCEPT !.active = FALSE]
                                  ELSE users[u]
                /\ slot'[s].deactivated = slot[s].targets]_vars

\* a bulk deactivation returned success after two swaps: its list has the
\* targets and then the two replacements, its result the targets alone
C32_Witness ==
    \E s \in Slots :
        /\ slot[s].op = "bulk" /\ slot[s].pc = "idle" /\ slot[s].err = NoErr
        /\ Len(slot[s].swaps) = 2
        /\ slot[s].deact = slot[s].targets \o replacementIDs(slot[s].swaps)
        /\ slot[s].deactivated = slot[s].targets
        /\ Len(slot[s].deact) = Len(slot[s].deactivated) + 2

\* a bulk deactivation returned success without a swap: its list is the targets
C32_WitnessNoSwap ==
    \E s \in Slots :
        /\ slot[s].op = "bulk" /\ slot[s].pc = "idle" /\ slot[s].err = NoErr
        /\ slot[s].swaps = <<>>
        /\ slot[s].deact = slot[s].targets
        /\ slot[s].deactivated = slot[s].targets
        /\ dbPRs # EmptyMap

\* C33: the bulk deactivation changes the reviewers of OPEN pull requests
\* only: the step in which its transaction commits leaves the reviewers of
\* every pull request that is MERGED at that moment as they are, also when the
\* merge committed after the plan was made
C33_BulkLeavesMergedAlone ==
    [][\A s \in Slots :
          BulkCommits(s) =>
              \A id \in DOMAIN dbPRs :
                  dbPRs[id].status = MERGED =>
                      dbPRs'[id].reviewers = dbPRs[id].reviewers]_vars

\* C35: in every reachable state no stored pull request has its author among
\* its reviewers
C35_AuthorIsNoReviewer ==
    \A id \in DOMAIN dbPRs : dbPRs[id].author \notin dbPRs[id].reviewers

\* C36: team membership only grows: a user the store records as a member of
\* a team is a member of that team after every step, and a user the cache
\* records as a member of a team is, while cached, a member of that team
C36_MembershipOnlyGrows ==
    [][/\ \A u \in DOMAIN dbUsers :
             u \in DOMAIN dbUsers' /\ dbUsers'[u].team = dbUsers[u].team
       /\ \A u \in DOMAIN users :
             u \in DOMAIN users' => users'[u].team = users[u].team]_vars

\* C38: a create whose pull request id is already stored fails and leaves
\* the stored pull request (author, status, timestamps, reviewers) as it is
C38_CreateKeepsExistingPR ==
    [][\A s \in Slots :
          (CreateReturns(s) /\ slot[s].pr \in DOMAIN dbPRs) =>
              /\ slot'[s].err # NoErr
              /\ dbPRs' = dbPRs]_vars

\* C39: when two reassigns of the same OPEN pull request, one for each of its
\* two reviewers, have overlapped and both returned success, the stored
\* reviewers are the two replacements they returned and neither old reviewer
C39_ConcurrentReassignsBothApply ==
    (/\ \A s \in Slots : /\ slot[s].op = "reassign" /\ slot[s].pc = "idle"
                         /\ slot[s].err = NoErr
     /\ slot[1].pr = slot[2].pr
     /\ slot[1].user # slot[2].user)
        => /\ dbPRs[slot[1].pr].reviewers = {slot[1].newRev, slot[2].newRev}
           /\ dbPRs[slot[1].pr].reviewers \cap {slot[1].user, slot[2].user} = {}

\* C37: SavePullRequest refuses a payload of more than two reviewers, whether
\* or not a transaction could go through, and the store stays as it is;
\* otherwise, when the transaction goes through, the stored pull request is the
\* payload's row with the payload's non-empty reviewer ids, each once, in place
\* of all the reviewers stored before, and no other pull request changes; when
\* the transaction fails at any step the store stays as it is
C37_SaveReplacesOrRollsBack ==
    [][LET id == slot'[1].pr
           pr == slot'[1].snap
       IN slot'[1].op = "save" =>
             /\ slot'[1].err = NoErr <=> (Len(pr.reviewers) <= 2 /\ slot'[1].flag)
             /\ slot'[1].err # NoErr => dbPRs' = dbPRs
             /\ slot'[1].err = NoErr =>
                   /\ DOMAIN dbPRs' = DOMAIN dbPRs \cup {id}
                   /\ \A other \in DOMAIN dbPRs \ {id} : dbPRs'[other] = dbPRs[other]
                   /\ dbPRs'[id].reviewers = {r \in Range(pr.reviewers) : r # ""}
                   /\ Cardinality(dbPRs'[id].reviewers) <= 2
                   /\ dbPRs'[id].author = pr.author
                   /\ dbPRs'[id].status = pr.status
                   /\ dbPRs'[id].createdAt = pr.createdAt
                   /\ dbPRs'[id].mergedAt = pr.mergedAt]_vars

\* a save has put one reviewer in the place of two stored ones: its payload
\* named the reviewer twice, or next to an empty id
C37_Witness ==
    /\ slot[1].op = "save" /\ slot[1].err = NoErr
    /\ Len(slot[1].snap.reviewers) = 2
    /\ Cardinality(dbPRs[slot[1].pr].reviewers) = 1
    /\ \E id \in DOMAIN dbPRs : Cardinality(dbPRs[id].reviewers) = 2

\* a save of three reviewers was refused although its transaction could have
\* gone through; the pull request is stored with its earlier reviewers
C37_WitnessRefused ==
    /\ slot[1].op = "save" /\ slot[1].err # NoErr /\ slot[1].flag
    /\ Len(slot[1].snap.reviewers) = 3
    /\ slot[1].pr \in DOMAIN dbPRs
    /\ dbPRs[slot[1].pr].reviewers # ReviewerRows(slot[1].snap.reviewers)

\* a save of an allowed payload failed in its transaction; the pull request is
\* stored with its earlier reviewers and status
C37_WitnessRolledBack ==
    /\ slot[1].op = "save" /\ slot[1].err # NoErr /\ ~slot[1].flag
    /\ Len(slot[1].snap.reviewers) <= 2
    /\ slot[1].pr \in DOMAIN dbPRs
    /\ dbPRs[slot[1].pr].reviewers # ReviewerRows(slot[1].snap.reviewers)
    /\ dbPRs[slot[1].pr].status # slot[1].snap.status

\* C40: when every request waits for the activity updates of the requests
\* before it, no user is a reviewer of two OPEN pull requests at the same time
C40_OneOpenReviewPerUser ==
    \A a, b \in DOMAIN dbPRs :
        (a # b /\ dbPRs[a].status = OPEN /\ dbPRs[b].status = OPEN) =>
            dbPRs[a].reviewers \cap dbPRs[b].reviewers = {}

\* the methods the lock discipline calls reads, and the ones it calls writes
ReadOps == {"assign", "find", "getTeam"}
WriteOps == {"warm", "addTeam", "setActive", "setUserActivity"}

\* C34: AssignRewiers, FindReplacementReviewer and the cache fallback of
\* GetTeam hold the lock of the directory in shared mode; PrimeCacheUser,
\* AddTeam, SetActivity and SetUserActivity hold it exclusively; a goroutine
\* that holds it exclusively is the only holder
C34_LockModes ==
    /\ \A s \in Holders :
          /\ slot[s].op \in ReadOps => slot[s].pc = "rlocked"
          /\ slot[s].op \in WriteOps => slot[s].pc = "locked"
    /\ \A s \in Holders : slot[s].pc = "locked" => Holders = {s}

====
